---- MODULE Spec2Model ----
(***************************************************************************)
(* Document analysis pipeline (core/pipeline.py) and its stage agents      *)
(* (agents/*.py).  One analysis request runs as a sequential state machine *)
(* whose steps are the stage calls of DocumentAnalysisPipeline.analyze and *)
(* DocumentAnalysisPipeline.analyze_text.                                  *)
(*                                                                         *)
(* Encoding.  TLC strings are ASCII, so the Korean literals of the source  *)
(* are written romanised or glossed; each definition names the literal it  *)
(* stands for.  A text is a sequence of word tokens; Python's substring    *)
(* test  w in text  is membership of the word in the sequence.  A Python   *)
(* dict is a function from its keys to its values; None is NULL.           *)
(***************************************************************************)
EXTENDS Integers, Sequences, FiniteSets, TLC

(* ------------------------------ bounds -------------------------------- *)
\* longest document text, in word tokens
MaxTextLen == 1
\* most pages of one uploaded file
MaxPages == 1
\* longest generative response, in lexical tokens
MaxRespLen == 3
\* most chunks the similarity search returns
MaxChunks == 1

(* --------------------------- dict helpers ------------------------------ *)
NULL == "None"
EmptyDict == <<>>
Has(d, k) == k \in DOMAIN d
Get(d, k, default) == IF k \in DOMAIN d THEN d[k] ELSE default
Put(d, k, v) == [y \in DOMAIN d \cup {k} |-> IF y = k THEN v ELSE d[y]]
\* for key, default in defaults.items(): if key not in result: result[key] = default
FillMissing(d, defaults) ==
  [k \in DOMAIN d \cup DOMAIN defaults |-> IF k \in DOMAIN d THEN d[k] ELSE defaults[k]]
Restrict(d, keys) == [k \in DOMAIN d \cap keys |-> d[k]]
\* Python truthiness of a str-or-None value
TruthyStr(v) == v # NULL /\ v # ""
SeqsUpTo(S, n) == UNION {[1..m -> S] : m \in 0..n}

(* ------------------------------ texts ---------------------------------- *)
\* "chenap" = arrears, "dokchok" = demand notice, "choegojang" = final notice,
\* "yeonche" = overdue, "minap" = unpaid, "apryu" = seizure
\* (info_extractor.py system prompt, the HIGH rows)
HighMarkers == {"dokchok", "choegojang", "chenap", "yeonche", "minap", "apryu"}
\* "gwataeryo" = administrative fine, "gasangeum" = surcharge,
\* "gihan_gyeonggwa" / "gihan_chogwa" = deadline passed / exceeded (the MEDIUM rows)
MediumMarkers == {"gwataeryo", "gasangeum", "gihan_gyeonggwa", "gihan_chogwa"}
\* whitespace tokens: a blank, and the "\n\n" page separator of analyze
Whitespace == {" ", "\n\n"}
\* the words a modelled document is made of
TextTokens == {" ", "chenap", "gwataeryo", "annae"}
Texts == SeqsUpTo(TextTokens, MaxTextLen)

HasHighMarker(t) == \E i \in 1..Len(t) : t[i] \in HighMarkers
HasMediumMarker(t) == \E i \in 1..Len(t) : t[i] \in MediumMarkers

\* str.strip(): drop leading and trailing whitespace
RECURSIVE LStrip(_)
LStrip(t) == IF t # <<>> /\ Head(t) \in Whitespace THEN LStrip(Tail(t)) ELSE t
RECURSIVE RStrip(_)
RStrip(t) ==
  IF t # <<>> /\ t[Len(t)] \in Whitespace THEN RStrip(SubSeq(t, 1, Len(t) - 1)) ELSE t
Strip(t) == RStrip(LStrip(t))

\* "\n\n".join(texts)
RECURSIVE Join(_)
Join(ts) ==
  IF ts = <<>> THEN <<>>
  ELSE IF Len(ts) = 1 THEN ts[1]
  ELSE ts[1] \o <<"\n\n">> \o Join(Tail(ts))

RECURSIVE SumConf(_)
SumConf(rs) == IF rs = <<>> THEN 0 ELSE rs[1].confidence + SumConf(Tail(rs))

(* -------------------- generative service and JSON helper --------------- *)
\* Lexical shape of a response text: "{" and "}" are braces, "x" is any other
\* text, "5" is a complete JSON value that is not an object (number, array,
\* string, null).  The members of an object are carried beside the shape.
RespTokens == {"{", "}", "x", "5"}
Responses == SeqsUpTo(RespTokens, MaxRespLen)

\* json.loads on a response shape: an object, another JSON value, or JSONDecodeError
JsonLoads(s) ==
  IF s = <<"{", "}">> THEN "object"
  ELSE IF s = <<"5">> THEN "value"
  ELSE "JSONDecodeError"

\* re.search(r'\{.*\}', response, re.DOTALL): from the first "{" to the last "}"
\* after it; the set of matches is empty or a singleton
ReSearch(s) ==
  LET opens == {i \in 1..Len(s) : s[i] = "{"}
  IN IF opens = {} THEN {}
     ELSE LET first == CHOOSE i \in opens : \A j \in opens : i <= j
              closes == {j \in 1..Len(s) : s[j] = "}" /\ j > first}
          IN IF closes = {} THEN {}
             ELSE LET last == CHOOSE j \in closes : \A k \in closes : j >= k
                  IN {SubSeq(s, first, last)}

Returned(v) == [exc |-> "", isdict |-> TRUE, val |-> v]
ReturnedValue == [exc |-> "", isdict |-> FALSE, val |-> EmptyDict]
Raised(e) == [exc |-> e, isdict |-> FALSE, val |-> EmptyDict]
Sentinel(resp) == [error |-> "Failed to parse JSON", raw_response |-> resp]

\* A reply of the generative service: the call fails, or it answers with a
\* response of shape resp whose object (if it parses to one) has the given members
LlmFail == [fail |-> TRUE, resp |-> <<>>, members |-> EmptyDict]
LlmText(resp, members) == [fail |-> FALSE, resp |-> resp, members |-> members]

\* whether the helper would hand the members of the response to its caller
ParsesToObject(resp) ==
  \/ JsonLoads(resp) = "object"
  \/ /\ JsonLoads(resp) = "JSONDecodeError"
     /\ \E m \in ReSearch(resp) : JsonLoads(m) = "object"

\* BaseAgent._call_llm_json
CallLlmJson(llm) ==
  IF llm.fail THEN Raised("APIError")
  ELSE CASE JsonLoads(llm.resp) = "object" -> Returned(llm.members)
         [] JsonLoads(llm.resp) = "value" -> ReturnedValue
         [] OTHER ->
              LET json_match == ReSearch(llm.resp)
              IN IF json_match # {}
                 THEN LET g == CHOOSE m \in json_match : TRUE
                      IN IF JsonLoads(g) = "object"
                         THEN Returned(llm.members)
                         ELSE Raised("JSONDecodeError")
                 ELSE Returned(Sentinel(llm.resp))

\* The response shapes offered to the stages of a pipeline run, one of each
\* kind: a JSON object, an object wrapped in other text, braces around text
\* that is no JSON, text without braces, a JSON value that is not an object.
StageResponses ==
  {<<"{", "}">>, <<"x", "{", "}">>, <<"{", "x", "}">>, <<"x">>, <<"5">>}

\* the replies over the response shapes rs whose objects are drawn from payloads
RepliesOver(rs, payloads) ==
  {LlmFail} \cup
  UNION {{LlmText(resp, m) : m \in IF ParsesToObject(resp) THEN payloads ELSE {EmptyDict}}
         : resp \in rs}
\* the replies offered to a stage of a pipeline run
LlmReplies(payloads) == RepliesOver(StageResponses, payloads)

(* ----------------------------- stage results --------------------------- *)
\* what a stage call does: it returns val, or it raises exc
Ok(v) == [exc |-> "", val |-> v]
Fail(e) == [exc |-> e, val |-> EmptyDict]

\* A stage that uses the value of _call_llm_json as a dict ("key" not in result,
\* result[key] = default): on a JSON value that is not an object the membership
\* test or the item assignment raises TypeError.
AsDict(r) ==
  IF r.exc # "" THEN Fail(r.exc)
  ELSE IF ~r.isdict THEN Fail("TypeError")
  ELSE Ok(r.val)

(* ------------------------------ classifier ----------------------------- *)
\* DOCUMENT_TYPES: the type codes, each a sequence of its words
\* ("gojiseo" = bill, "annaemun" = informational notice, "tongjiseo" = notice)
HealthBill == <<"geongang_boheomryo", "gojiseo">>
PensionNotice == <<"gukmin_yeongeum", "annaemun">>
TaxNotice == <<"segeum", "tongjiseo">>
LocalTaxBill == <<"jibangse", "gojiseo">>
CommunityNotice == <<"jumin_center", "annaemun">>
WelfareNotice == <<"bokji", "annaemun">>
UtilityBill == <<"gonggwageum", "gojiseo">>
BankNotice == <<"eunhaeng", "tongjiseo">>
CourtNotice == <<"beobwon", "tongjiseo">>
OtherDoc == <<"gita", "gonggong_munseo">>
DOCUMENT_TYPES ==
  {HealthBill, PensionNotice, TaxNotice, LocalTaxBill, CommunityNotice,
   WelfareNotice, UtilityBill, BankNotice, CourtNotice, OtherDoc}

\* "Ensure required fields exist" of _llm_classify
ClassifyDefaults ==
  [doc_type |-> OtherDoc, doc_type_name |-> "gita gonggong munseo",
   confidence |-> "0.5", organization |-> "al su eopseum"]

\* answers whose type code is empty, or a code DOCUMENT_TYPES does not hold
\* ("sin munseo" = a new kind of document)
OffCatalogPayloads ==
  {[doc_type |-> <<>>, doc_type_name |-> "", confidence |-> "0.3",
    organization |-> "", reasoning |-> "r"],
   [doc_type |-> <<"sin", "munseo">>, doc_type_name |-> "sin munseo",
    confidence |-> "0.7", organization |-> "NHIS", reasoning |-> "r"]}
\* the objects the generative classification answers with
ClassifyPayloads ==
  {EmptyDict,
   [doc_type |-> PensionNotice, doc_type_name |-> "gukmin yeongeum annaemun",
    confidence |-> "0.9", organization |-> "NPS", reasoning |-> "r"],
   [doc_type |-> HealthBill, doc_type_name |-> "geongang boheomryo gojiseo",
    confidence |-> "0.8", organization |-> "NHIS", reasoning |-> "r"]}
  \cup OffCatalogPayloads

\* DocumentClassifier.process -> _llm_classify
ClassifierProcess(llm) ==
  LET r == AsDict(CallLlmJson(llm))
  IN IF r.exc # "" THEN r ELSE Ok(FillMissing(r.val, ClassifyDefaults))

(* ------------------------------ extractor ------------------------------ *)
RiskLevels == {"NONE", "LOW", "MEDIUM", "HIGH"}
FactKeys ==
  {"amount", "due_date", "organization", "penalty_risk", "action_required",
   "contact", "account_number", "recipient_name"}

\* "Ensure all fields exist with defaults" of _extract_with_llm
FactDefaults ==
  [amount |-> NULL, due_date |-> NULL, organization |-> NULL,
   penalty_risk |-> "NONE", action_required |-> FALSE, contact |-> NULL,
   account_number |-> NULL, recipient_name |-> NULL]

\* complete refinement objects
FullFacts ==
  {[amount |-> a[1], due_date |-> a[2], organization |-> "NHIS",
    penalty_risk |-> p, action_required |-> q, contact |-> "1577-1000",
    account_number |-> "123-456", recipient_name |-> "Kim"] :
     a \in {<<NULL, NULL>>, <<"150,000won", "2025-01-31">>},
     p \in RiskLevels, q \in BOOLEAN}
\* a refinement object whose penalty_risk is none of the four levels
OffEnumFacts ==
  {[amount |-> "150,000won", due_date |-> "2025-01-31", organization |-> "NHIS",
    penalty_risk |-> "CRITICAL", action_required |-> TRUE, contact |-> "1577-1000",
    account_number |-> "123-456", recipient_name |-> "Kim"]}
\* the keys a refinement object may lack
FactDropSets == {{}, {"penalty_risk"}, {"action_required"}, FactKeys}
\* the objects the generative refinement answers with
FactPayloads ==
  {Restrict(f, FactKeys \ d) : f \in FullFacts, d \in FactDropSets} \cup OffEnumFacts

ExtractorProcessNoDefaults(llm) == AsDict(CallLlmJson(llm))
\* InfoExtractor.process -> _extract_with_llm
ExtractorProcess(llm) ==
  LET r == AsDict(CallLlmJson(llm))
  IN IF r.exc # "" THEN r ELSE Ok(FillMissing(r.val, FactDefaults))

(* ------------------------------ retriever ------------------------------ *)
\* default of RAGAgent.process(top_k=5)
TopK == 5
\* entries of the knowledge index, as VectorStore.search returns them
KBHits ==
  {[text |-> "kb text 1", score |-> "0.9",
    metadata |-> [source_name |-> "NHIS", doc_type |-> "bill", topic |-> "payment"]],
   [text |-> "kb text 2", score |-> "0.4", metadata |-> EmptyDict]}
MinOf(a, b) == IF a <= b THEN a ELSE b
\* what one search can return: up to n_results hits
SearchResults == SeqsUpTo(KBHits, MinOf(TopK, MaxChunks))
\* what _generate_summary's _call_llm can return
SummaryTexts == {"summary"}

\* RAGAgent._build_query: the parts joined by " "
BuildQuery(doc_type, key_info) ==
  <<doc_type>>
  \o (IF TruthyStr(Get(key_info, "organization", NULL))
      THEN <<key_info["organization"]>> ELSE <<>>)
  \o (IF Get(key_info, "action_required", FALSE) THEN <<"procedure hint">> ELSE <<>>)
  \o (IF Get(key_info, "penalty_risk", NULL) \in {"MEDIUM", "HIGH"}
      THEN <<"penalty caution hint">> ELSE <<>>)

\* "Format results" loop of RAGAgent.process
FormatChunk(r) ==
  [text |-> Get(r, "text", ""),
   source |-> Get(Get(r, "metadata", EmptyDict), "source_name", "Unknown"),
   doc_type |-> Get(Get(r, "metadata", EmptyDict), "doc_type", ""),
   topic |-> Get(Get(r, "metadata", EmptyDict), "topic", ""),
   score |-> Get(r, "score", "0.0")]

\* The environment of one retrieval: whether constructing the vector store
\* raises (when it is not constructed yet), whether search raises, the hits
\* search returns, and whether the summarisation call raises.
RagEnvs ==
  [construct_fails : BOOLEAN, search_fails : BOOLEAN, hits : SearchResults,
   summary_fails : BOOLEAN, summary : SummaryTexts]

\* the body of the try block of RAGAgent.process: a raise anywhere in it
\* (vector_store property, search, _generate_summary) is caught by the except
\* the value is the exception raised, "" when none is
RagTryRaises(store, env) ==
  IF store = "none" /\ env.construct_fails THEN "ConstructError"
  ELSE IF env.search_fails THEN "SearchError"
  ELSE IF env.hits # <<>> /\ env.summary_fails THEN "APIError"
  ELSE ""

\* the similarity-search capability is unavailable in this environment
SearchUnavailable(store, env) ==
  (store = "none" /\ env.construct_fails) \/ env.search_fails

RagProcessUncaught(store, doc_type, key_info, env) ==
  IF RagTryRaises(store, env) # ""
  THEN Fail(RagTryRaises(store, env))
  ELSE Ok([retrieved_chunks |-> [i \in 1..Len(env.hits) |-> FormatChunk(env.hits[i])],
           query |-> BuildQuery(doc_type, key_info),
           summary |-> IF env.hits # <<>> THEN env.summary ELSE ""])
\* RAGAgent.process
RagProcess(store, doc_type, key_info, env) ==
  LET query == BuildQuery(doc_type, key_info)
      retrieved_chunks == [i \in 1..Len(env.hits) |-> FormatChunk(env.hits[i])]
  IN IF RagTryRaises(store, env) # ""
     THEN Ok([retrieved_chunks |-> <<>>, query |-> query, summary |-> "",
              error |-> RagTryRaises(store, env)])
     ELSE Ok([retrieved_chunks |-> retrieved_chunks, query |-> query,
              summary |-> IF retrieved_chunks # <<>> THEN env.summary ELSE ""])

\* RAGAgent.vector_store (lazy load): the store after the property was read
StoreAfter(store, env) ==
  IF store = "none" /\ env.construct_fails THEN "none" ELSE "ready"

(* ------------------------------- planner ------------------------------- *)
InCode(w, doc_type) == \E i \in 1..Len(doc_type) : doc_type[i] = w

DetermineActionTypeByTypeFirst(doc_type, key_info) ==
  IF InCode("annaemun", doc_type) THEN "NONE"
  ELSE IF TruthyStr(Get(key_info, "amount", NULL)) /\ TruthyStr(Get(key_info, "due_date", NULL))
  THEN (IF Get(key_info, "penalty_risk", NULL) = "HIGH" THEN "URGENT" ELSE "PAY")
  ELSE IF Get(key_info, "action_required", FALSE)
  THEN (IF Get(key_info, "penalty_risk", NULL) = "HIGH" THEN "URGENT" ELSE "CHECK")
  ELSE IF (InCode("gojiseo", doc_type) \/ InCode("napbu", doc_type))
          /\ TruthyStr(Get(key_info, "amount", NULL))
  THEN "PAY"
  ELSE IF InCode("tongjiseo", doc_type) \/ InCode("chenap", doc_type) THEN "URGENT"
  ELSE "CHECK"
\* ActionPlanner._determine_action_type
DetermineActionType(doc_type, key_info) ==
  IF TruthyStr(Get(key_info, "amount", NULL)) /\ TruthyStr(Get(key_info, "due_date", NULL))
  THEN (IF Get(key_info, "penalty_risk", NULL) = "HIGH" THEN "URGENT" ELSE "PAY")
  ELSE IF Get(key_info, "action_required", FALSE)
  THEN (IF Get(key_info, "penalty_risk", NULL) = "HIGH" THEN "URGENT" ELSE "CHECK")
  ELSE IF (InCode("gojiseo", doc_type) \/ InCode("napbu", doc_type))
          /\ TruthyStr(Get(key_info, "amount", NULL))
  THEN "PAY"
  ELSE IF InCode("tongjiseo", doc_type) \/ InCode("chenap", doc_type) THEN "URGENT"
  ELSE IF InCode("annaemun", doc_type) THEN "NONE"
  ELSE "CHECK"

DetermineUrgencyFlat(key_info) == "MEDIUM"
\* ActionPlanner._determine_urgency
DetermineUrgency(key_info) ==
  LET penalty_risk == Get(key_info, "penalty_risk", "NONE")
  IN IF penalty_risk = "HIGH" THEN "HIGH"
     ELSE IF penalty_risk = "MEDIUM" THEN "MEDIUM"
     ELSE IF Get(key_info, "action_required", FALSE) THEN "MEDIUM"
     ELSE "LOW"

\* the fallback step: "further confirmation is needed for this document"
StepFurtherCheck == "further check needed"
\* the objects the generative planning answers with
PlanPayloads ==
  {EmptyDict,
   [steps |-> <<>>],
   [steps |-> <<"step 1">>],
   [steps |-> <<"step 1">>, action_type |-> "CALL", urgency |-> "LOW",
    deadline_info |-> "by 2025-01-31", contact_info |-> "1577-1000"]}

\* "Ensure required fields" of _generate_action_plan
EnsurePlanFields(result, action_type, urgency) ==
  LET r1 == IF ~Has(result, "steps") \/ result["steps"] = <<>>
            THEN Put(result, "steps", <<StepFurtherCheck>>) ELSE result
      r2 == IF ~Has(r1, "action_type") THEN Put(r1, "action_type", action_type) ELSE r1
  IN IF ~Has(r2, "urgency") THEN Put(r2, "urgency", urgency) ELSE r2

\* ActionPlanner.process -> _generate_action_plan
PlannerProcess(doc_type, key_info, rag_context, llm) ==
  LET action_type == DetermineActionType(doc_type, key_info)
      urgency == DetermineUrgency(key_info)
      r == AsDict(CallLlmJson(llm))
  IN IF r.exc # "" THEN r ELSE Ok(EnsurePlanFields(r.val, action_type, urgency))

(* ------------------------------ simplifier ----------------------------- *)
SimpStrKeys ==
  {"summary_one_line", "risk_level", "risk_message", "what_is_this", "dont_worry",
   "need_help_message"}
\* "Ensure all required fields exist" of _generate_simple_explanation
\* (summary: "a document that needs checking"; step: "read it carefully";
\*  help: "ask at the nearest community centre")
SimplifyDefaults ==
  [summary_one_line |-> "needs checking", risk_level |-> "LOW", risk_message |-> "",
   what_is_this |-> "a document from a public office", key_points |-> <<>>,
   steps_easy |-> <<"read it carefully">>, help_channels |-> EmptyDict,
   dont_worry |-> "", need_help_message |-> "ask the community centre"]
SimplifyKeys == DOMAIN SimplifyDefaults

\* not result[key]
Falsy(key, v) == IF key \in SimpStrKeys THEN ~TruthyStr(v) ELSE v = <<>>

\* complete renderings
FullRenderings ==
  {[summary_one_line |-> "pay now", risk_level |-> r, risk_message |-> "risk",
    what_is_this |-> "a bill", key_points |-> <<"point 1">>, steps_easy |-> s,
    help_channels |-> [phone |-> "1577-1000"], dont_worry |-> w,
    need_help_message |-> "ask family"] :
     r \in {"LOW", "MEDIUM", "HIGH"}, s \in {<<>>, <<"easy step 1">>},
     w \in {"", "do not worry"}}
\* the keys a rendering may lack
RenderDropSets == {{}, {"risk_level"}, {"steps_easy"}, SimplifyKeys}
\* the objects the generative rendering answers with
SimplifyPayloads ==
  {Restrict(f, SimplifyKeys \ d) : f \in FullRenderings, d \in RenderDropSets}

FillDefaultsMissingOnly(result) == FillMissing(result, SimplifyDefaults)
\* the defaults loop: if key not in result or not result[key]: result[key] = default
FillDefaults(result) ==
  [k \in DOMAIN result \cup SimplifyKeys |->
     IF k \in SimplifyKeys /\ (~Has(result, k) \/ Falsy(k, result[k]))
     THEN SimplifyDefaults[k] ELSE result[k]]

SimplifierProcessNoDefaults(doc_type, key_info, action_plan, rag_context, llm) ==
  AsDict(CallLlmJson(llm))
\* Simplifier.process -> _generate_simple_explanation
SimplifierProcess(doc_type, key_info, action_plan, rag_context, llm) ==
  LET r == AsDict(CallLlmJson(llm))
  IN IF r.exc # "" THEN r ELSE Ok(FillDefaults(r.val))

(* ------------------------------ orchestrator --------------------------- *)
VARIABLES
  pc,              \* position of the request in analyze / analyze_text
  entry,           \* the entry point called: "analyze" or "analyze_text"
  text,            \* full_text (analyze) / text (analyze_text)
  result,          \* the AnalysisResult being filled
  classification,  \* local: what the classifier returned
  key_info,        \* local: what the extractor returned
  rag_result,      \* local: what the retriever returned
  action_plan,     \* local: what the planner returned
  calls,           \* the stage calls made so far, with their arguments
  outcome,         \* "running", "returned" or "raised" (an exception left the entry point)
  now,             \* time.time(), in ms
  start_time,      \* local: start_time
  vector_store,    \* RAGAgent._vector_store: "none" or "ready"
  raised_stage,    \* history: the stage whose call raised, "" when none did
  search_unavailable  \* history: the vector store or its search raised

pvars ==
  <<pc, entry, text, result, classification, key_info, rag_result, action_plan,
    calls, outcome, now, start_time, vector_store, raised_stage, search_unavailable>>

\* One call of _call_llm_json by one stage, taken alone
VARIABLES
  j_pc,     \* "off" (no such call), "call" (about to be made) or "done"
  j_stage,  \* the stage making the call
  j_llm,    \* the reply of the generative service
  j_ret,    \* what _call_llm_json did with it
  j_out     \* what the stage did with that

jvars == <<j_pc, j_stage, j_llm, j_ret, j_out>>

\* The REST API process (api/main.py): the history and the last response
VARIABLES
  analysis_history,  \* the module-level list analysis_history, newest first
  history_file,      \* HISTORY_FILE: [state, entries], state "missing", "valid" or "corrupt"
  api_response,      \* the response of the last request handled
  api_count,         \* the uuid4 values drawn so far
  api_appended       \* history: the entries appended (or loaded at startup)
                     \* since the last clear, newest first

avars == <<analysis_history, history_file, api_response, api_count, api_appended>>

\* The remote calls of one analysis, taken alone
VARIABLES
  r_pc,      \* the call site the analysis is at, or "done"
  r_call,    \* the remote call in flight: [site, options], site "" when none is
  r_waited,  \* how long the call in flight has been waiting for its answer
  r_trace    \* history: the calls made, each with how it ended

rvars == <<r_pc, r_call, r_waited, r_trace>>

\* Two analysis requests served by the one pipeline instance
VARIABLES
  t_pc,            \* per request: its position in analyze_text
  t_heap,          \* the objects allocated so far; an address is an index
  t_ref,           \* per request: the address of its local `result` (0: none yet)
  t_locals,        \* per request: what the stages returned to it, and its clock readings
  t_now,           \* time.time()
  t_vector_store   \* RAGAgent._vector_store of the shared pipeline

tvars == <<t_pc, t_heap, t_ref, t_locals, t_now, t_vector_store>>

\* One call of a deterministic function of a stage, taken alone
VARIABLES
  u_pc,   \* "off" (no such call), "call" (about to be made) or "done"
  u_fn,   \* the function called
  u_in,   \* its arguments
  u_out   \* what it returned

uvars == <<u_pc, u_fn, u_in, u_out>>

vars == <<pvars, jvars, avars, rvars, tvars, uvars>>
nonpvars == <<jvars, avars, rvars, tvars, uvars>>
nonjvars == <<pvars, avars, rvars, tvars, uvars>>
nonavars == <<pvars, jvars, rvars, tvars, uvars>>
nonrvars == <<pvars, jvars, avars, tvars, uvars>>
nontvars == <<pvars, jvars, avars, rvars, uvars>>
nonuvars == <<pvars, jvars, avars, rvars, tvars>>

\* no function call is being followed
UnitOff ==
  /\ u_pc = "off"
  /\ u_fn = ""
  /\ u_in = EmptyDict
  /\ u_out = EmptyDict

Requests == {1, 2}
\* no remote call is being followed
RemoteOff ==
  /\ r_pc = "off"
  /\ r_call = [site |-> "", options |-> EmptyDict]
  /\ r_waited = 0
  /\ r_trace = <<>>
\* no pair of requests is being followed
TwoOff ==
  /\ t_pc = [r \in Requests |-> "off"]
  /\ t_heap = <<>>
  /\ t_ref = [r \in Requests |-> 0]
  /\ t_locals = [r \in Requests |-> EmptyDict]
  /\ t_now = 0
  /\ t_vector_store = "none"

NoResponse == [op |-> "", arg |-> 0, status |-> 0, body |-> EmptyDict]
\* the API process does not exist
ApiOff ==
  /\ analysis_history = <<>>
  /\ history_file = [state |-> "missing", entries |-> <<>>]
  /\ api_response = NoResponse
  /\ api_count = 0
  /\ api_appended = <<>>

\* "the document could not be read"
MsgUnreadable == "could not read document"
\* "the image quality is poor, the characters were not recognised"
MsgPoorImage == "poor image quality"
\* "please take a sharper picture again"
StepRetake == "retake a sharper photo"
\* "an error occurred while analysing the document"
MsgFailed == "analysis failed"
\* "please try again"
StepRetry == "retry"

\* AnalysisResult(): the dataclass defaults
NewResult ==
  [doc_type |-> <<>>, doc_type_name |-> "", organization |-> "",
   risk_level |-> "LOW", action_required |-> FALSE, key_info |-> EmptyDict,
   summary_one_line |-> "", what_is_this |-> "", key_points |-> <<>>,
   steps_easy |-> <<>>, dont_worry |-> "", need_help_message |-> "",
   action_plan |-> EmptyDict, evidence_chunks |-> <<>>, ocr_confidence |-> 0,
   processing_time_ms |-> 0]

\* the exception classes raised in the model; all derive from Exception
ExceptionClasses ==
  {"APIError", "JSONDecodeError", "TypeError", "FileNotFoundError", "ValueError",
   "ConstructError", "SearchError"}
CatchesOnlyApiError(e) == e = "APIError"
\* except Exception as e
Catches(e) == e \in ExceptionClasses

\* the except block of analyze / analyze_text
FailureResult(r, e) ==
  [r EXCEPT !.summary_one_line = MsgFailed,
            !.what_is_this = "error: " \o e,
            !.steps_easy = <<StepRetry>>]

FinallySkipped(r, t) == r
\* the finally block of analyze / analyze_text
Finally(r, t) == [r EXCEPT !.processing_time_ms = t - start_time]

\* a stage raised e: except (when it catches e), finally, and the return
Abort(stage, e, t) ==
  /\ pc' = "done"
  /\ raised_stage' = stage
  /\ result' = Finally(IF Catches(e) THEN FailureResult(result, e) ELSE result, t)
  /\ outcome' = IF Catches(e) THEN "returned" ELSE "raised"

\* "Determine risk level" of analyze / analyze_text
RiskFromPenalty(penalty_risk) ==
  IF penalty_risk = "HIGH" THEN "HIGH"
  ELSE IF penalty_risk = "MEDIUM" THEN "MEDIUM"
  ELSE "LOW"

(* acquisition: DocumentPreprocessor.preprocess_file and the OCR engine *)
Files ==
  {[exists |-> FALSE, ext |-> ".png", pages |-> 0],
   [exists |-> TRUE, ext |-> ".txt", pages |-> 0],
   [exists |-> TRUE, ext |-> ".png", pages |-> 1]}
  \cup {[exists |-> TRUE, ext |-> ".pdf", pages |-> n] : n \in 0..MaxPages}
ImageFormats == {".png", ".jpg", ".jpeg", ".gif", ".bmp", ".tiff", ".webp"}

\* DocumentPreprocessor.preprocess_file: the page images, or the exception
PreprocessFile(f) ==
  IF ~f.exists THEN Fail("FileNotFoundError")
  ELSE IF f.ext = ".pdf" THEN Ok([i \in 1..f.pages |-> i])
  ELSE IF f.ext \in ImageFormats THEN Ok(<<1>>)
  ELSE Fail("ValueError")

\* VisionOCREngine.extract_from_pil_image: the text read (confidence 95), or,
\* when the vision call raises, the error text (confidence 0)
OcrOutcomes ==
  {[text |-> t, confidence |-> 95] : t \in Texts}
  \cup {[text |-> <<"OCR error">>, confidence |-> 0]}

(* the arguments analyze / analyze_text pass to each stage *)
ClassifierArgs == [ocr_text |-> text]
ExtractorArgs == [ocr_text |-> text, doc_type |-> result.doc_type]
RetrieverArgs == [doc_type |-> result.doc_type, key_info |-> key_info, ocr_text |-> text]
PlannerArgs == [doc_type |-> result.doc_type, key_info |-> key_info,
                rag_context |-> rag_result]
SimplifierArgsNoContext ==
  [doc_type |-> result.doc_type_name, key_info |-> key_info,
   action_plan |-> action_plan, rag_context |-> EmptyDict]
SimplifierArgs ==
  [doc_type |-> result.doc_type_name, key_info |-> key_info,
   action_plan |-> action_plan, rag_context |-> rag_result]

PipelineInit ==
  /\ pc = "idle"
  /\ entry = ""
  /\ text = <<>>
  /\ result = NewResult
  /\ classification = EmptyDict
  /\ key_info = EmptyDict
  /\ rag_result = EmptyDict
  /\ action_plan = EmptyDict
  /\ calls = <<>>
  /\ outcome = "running"
  /\ now = 0
  /\ start_time = 0
  /\ vector_store = "none"
  /\ raised_stage = ""
  /\ search_unavailable = FALSE

\* analyze(file_path) up to the classification call: stages 1 and 2, the
\* combination of the page texts and the unreadable-document exit
Analyze ==
  /\ pc = "idle"
  /\ \E f \in Files :
       LET pre == PreprocessFile(f)
       IN /\ entry' = "analyze"
          /\ start_time' = now
          /\ now' = now + 1
          /\ calls' = Append(calls, [stage |-> "acquire", args |-> EmptyDict])
          /\ IF pre.exc # ""
             THEN /\ pc' = "done"
                  /\ result' = [(IF Catches(pre.exc)
                                 THEN FailureResult(NewResult, pre.exc)
                                 ELSE NewResult)
                                EXCEPT !.processing_time_ms = now' - now]
                  /\ outcome' = IF Catches(pre.exc) THEN "returned" ELSE "raised"
                  /\ raised_stage' = "acquire"
                  /\ text' = text
             ELSE \E ocr_results \in [1..Len(pre.val) -> OcrOutcomes] :
                    LET full_text == Join([i \in 1..Len(ocr_results) |-> ocr_results[i].text])
                        avg_confidence ==
                          IF ocr_results # <<>>
                          THEN SumConf(ocr_results) \div Len(ocr_results) ELSE 0
                        r1 == [NewResult EXCEPT !.ocr_confidence = avg_confidence]
                    IN /\ text' = full_text
                       /\ raised_stage' = raised_stage
                       /\ IF Strip(full_text) = <<>>
                          THEN /\ pc' = "done"
                               /\ result' =
                                    [r1 EXCEPT !.summary_one_line = MsgUnreadable,
                                               !.what_is_this = MsgPoorImage,
                                               !.steps_easy = <<StepRetake>>,
                                               !.processing_time_ms = now' - now]
                               /\ outcome' = "returned"
                          ELSE /\ pc' = "classify"
                               /\ result' = r1
                               /\ outcome' = outcome
  /\ UNCHANGED nonpvars
  /\ UNCHANGED <<classification, key_info, rag_result, action_plan, vector_store,
                 search_unavailable>>

\* analyze_text(text) up to the classification call
AnalyzeText ==
  /\ pc = "idle"
  /\ \E t \in Texts :
       /\ text' = t
       /\ entry' = "analyze_text"
       /\ start_time' = now
       /\ result' = [NewResult EXCEPT !.ocr_confidence = 100]
       /\ pc' = "classify"
  /\ UNCHANGED nonpvars
  /\ UNCHANGED <<classification, key_info, rag_result, action_plan, calls, outcome,
                 now, vector_store, raised_stage, search_unavailable>>

\* Stage 3: Document Classification
Classify ==
  /\ pc = "classify"
  /\ \E llm \in LlmReplies(ClassifyPayloads) :
       LET r == ClassifierProcess(llm)
       IN /\ calls' = Append(calls, [stage |-> "classify", args |-> ClassifierArgs])
          /\ now' = now + 1
          /\ IF r.exc # ""
             THEN Abort("classify", r.exc, now') /\ classification' = classification
             ELSE /\ classification' = r.val
                  /\ result' =
                       [result EXCEPT
                          !.doc_type = Get(r.val, "doc_type", OtherDoc),
                          !.doc_type_name = Get(r.val, "doc_type_name", "gita gonggong munseo"),
                          !.organization = Get(r.val, "organization", "")]
                  /\ pc' = "extract"
                  /\ outcome' = outcome
                  /\ raised_stage' = raised_stage
  /\ UNCHANGED nonpvars
  /\ UNCHANGED <<entry, text, key_info, rag_result, action_plan, start_time, vector_store,
                 search_unavailable>>

\* Stage 4: Information Extraction, and "Determine risk level"
Extract ==
  /\ pc = "extract"
  /\ \E llm \in LlmReplies(FactPayloads) :
       LET r == ExtractorProcess(llm)
       IN /\ calls' = Append(calls, [stage |-> "extract", args |-> ExtractorArgs])
          /\ now' = now + 1
          /\ IF r.exc # ""
             THEN Abort("extract", r.exc, now') /\ key_info' = key_info
             ELSE /\ key_info' = r.val
                  /\ result' =
                       [result EXCEPT
                          !.key_info = r.val,
                          !.action_required = Get(r.val, "action_required", FALSE),
                          !.risk_level = RiskFromPenalty(Get(r.val, "penalty_risk", "NONE"))]
                  /\ pc' = "retrieve"
                  /\ outcome' = outcome
                  /\ raised_stage' = raised_stage
  /\ UNCHANGED nonpvars
  /\ UNCHANGED <<entry, text, classification, rag_result, action_plan, start_time,
                 vector_store, search_unavailable>>

\* Stage 5: RAG Context Retrieval
Retrieve ==
  /\ pc = "retrieve"
  /\ \E env \in RagEnvs :
       LET a == RetrieverArgs
           r == RagProcess(vector_store, a.doc_type, a.key_info, env)
       IN /\ calls' = Append(calls, [stage |-> "retrieve", args |-> a])
          /\ now' = now + 1
          /\ vector_store' = StoreAfter(vector_store, env)
          /\ search_unavailable' = SearchUnavailable(vector_store, env)
          /\ IF r.exc # ""
             THEN Abort("retrieve", r.exc, now') /\ rag_result' = rag_result
             ELSE /\ rag_result' = r.val
                  /\ result' = [result EXCEPT
                                  !.evidence_chunks = Get(r.val, "retrieved_chunks", <<>>)]
                  /\ pc' = "plan"
                  /\ outcome' = outcome
                  /\ raised_stage' = raised_stage
  /\ UNCHANGED nonpvars
  /\ UNCHANGED <<entry, text, classification, key_info, action_plan, start_time>>

\* Stage 6: Action Planning
Plan ==
  /\ pc = "plan"
  /\ \E llm \in LlmReplies(PlanPayloads) :
       LET a == PlannerArgs
           r == PlannerProcess(a.doc_type, a.key_info, a.rag_context, llm)
       IN /\ calls' = Append(calls, [stage |-> "plan", args |-> a])
          /\ now' = now + 1
          /\ IF r.exc # ""
             THEN Abort("plan", r.exc, now') /\ action_plan' = action_plan
             ELSE /\ action_plan' = r.val
                  /\ result' = [result EXCEPT !.action_plan = r.val]
                  /\ pc' = "simplify"
                  /\ outcome' = outcome
                  /\ raised_stage' = raised_stage
  /\ UNCHANGED nonpvars
  /\ UNCHANGED <<entry, text, classification, key_info, rag_result, start_time,
                 vector_store, search_unavailable>>

\* Stage 7: Simplification, the copy of the rendering into the result, and the return
Simplify ==
  /\ pc = "simplify"
  /\ \E llm \in LlmReplies(SimplifyPayloads) :
       LET a == SimplifierArgs
           r == SimplifierProcess(a.doc_type, a.key_info, a.action_plan, a.rag_context, llm)
           simplified == r.val
       IN /\ calls' = Append(calls, [stage |-> "simplify", args |-> a])
          /\ now' = now + 1
          /\ IF r.exc # ""
             THEN Abort("simplify", r.exc, now')
             ELSE /\ result' =
                       Finally(
                         [result EXCEPT
                            !.summary_one_line = Get(simplified, "summary_one_line", ""),
                            !.what_is_this = Get(simplified, "what_is_this", ""),
                            !.key_points = Get(simplified, "key_points", <<>>),
                            !.steps_easy = Get(simplified, "steps_easy", <<>>),
                            !.risk_level = Get(simplified, "risk_level", result.risk_level),
                            !.dont_worry = Get(simplified, "dont_worry", ""),
                            !.need_help_message = Get(simplified, "need_help_message", "")],
                         now')
                  /\ pc' = "done"
                  /\ outcome' = "returned"
                  /\ raised_stage' = raised_stage
  /\ UNCHANGED nonpvars
  /\ UNCHANGED <<entry, text, classification, key_info, rag_result, action_plan,
                 start_time, vector_store, search_unavailable>>

JsonOff ==
  /\ j_pc = "off"
  /\ j_stage = ""
  /\ j_llm = LlmFail
  /\ j_ret = Raised("pending")
  /\ j_out = Fail("pending")

Init == PipelineInit /\ JsonOff /\ ApiOff /\ RemoteOff /\ TwoOff /\ UnitOff
Next == Analyze \/ AnalyzeText \/ Classify \/ Extract \/ Retrieve \/ Plan \/ Simplify

\* one analysis request, from the call of an entry point to its return
Spec == Init /\ [][Next]_vars

(* ------------------- one JSON call of one stage, alone ------------------ *)
JsonStages == {"classify", "extract", "plan", "simplify"}
StagePayloads(stage) ==
  CASE stage = "classify" -> ClassifyPayloads
    [] stage = "extract" -> FactPayloads
    [] stage = "plan" -> PlanPayloads
    [] OTHER -> SimplifyPayloads

InitJson ==
  /\ PipelineInit
  /\ j_pc = "call"
  /\ j_stage \in JsonStages
  /\ j_llm \in RepliesOver(Responses, StagePayloads(j_stage))
  /\ j_ret = Raised("pending")
  /\ j_out = Fail("pending")
  /\ ApiOff /\ RemoteOff /\ TwoOff /\ UnitOff

JsonDone(ret, out) ==
  /\ j_pc' = "done"
  /\ j_ret' = ret
  /\ j_out' = out
  /\ UNCHANGED <<j_stage, j_llm, nonjvars>>

JClassify ==
  /\ j_pc = "call" /\ j_stage = "classify"
  /\ JsonDone(CallLlmJson(j_llm), ClassifierProcess(j_llm))
JExtract ==
  /\ j_pc = "call" /\ j_stage = "extract"
  /\ JsonDone(CallLlmJson(j_llm), ExtractorProcess(j_llm))
JPlan ==
  /\ j_pc = "call" /\ j_stage = "plan"
  /\ JsonDone(CallLlmJson(j_llm),
              PlannerProcess(OtherDoc, FactDefaults, EmptyDict, j_llm))
JSimplify ==
  /\ j_pc = "call" /\ j_stage = "simplify"
  /\ JsonDone(CallLlmJson(j_llm),
              SimplifierProcess("gita gonggong munseo", FactDefaults,
                                [steps |-> <<StepFurtherCheck>>], EmptyDict, j_llm))

NextJson == JClassify \/ JExtract \/ JPlan \/ JSimplify

\* every reply of the generative service, given to each stage that parses JSON
SpecJson == InitJson /\ [][NextJson]_vars

(* ------------------------------- REST API ------------------------------ *)
\* requests handled by one API process
MaxRequests == 3
\* appends made beyond the cap in the long run of the history
MaxOver == 2
\* the largest limit and the largest id asked for
MaxLimit == 2

\* analysis_history[-50:] in save_history
HistoryCap == 50
\* len(request.text.strip()) < 10 in analyze_text
MinTextLen == 10

\* a[-n:], n > 0
LastN(a, n) == IF Len(a) <= n THEN a ELSE SubSeq(a, Len(a) - n + 1, Len(a))
\* a[:n], n of either sign
FirstN(a, n) ==
  IF n >= 0 THEN SubSeq(a, 1, MinOf(n, Len(a)))
  ELSE SubSeq(a, 1, IF Len(a) + n > 0 THEN Len(a) + n ELSE 0)

\* AnalysisResult.to_dict
ResultFields ==
  {"doc_type", "doc_type_name", "organization", "risk_level", "action_required",
   "summary_one_line", "key_info", "what_is_this", "key_points", "steps_easy",
   "action_plan", "dont_worry", "need_help_message", "evidence_chunks",
   "ocr_confidence", "processing_time_ms"}
ToDict(r) == [k \in ResultFields |-> r[k]]

\* results the pipeline hands to the API: the blank-text exit of analyze, a
\* stage failure, and a completed analysis
UnreadableResult ==
  [NewResult EXCEPT !.summary_one_line = MsgUnreadable, !.what_is_this = MsgPoorImage,
                    !.steps_easy = <<StepRetake>>]
FailedResult == FailureResult([NewResult EXCEPT !.ocr_confidence = 100], "APIError")
AnalysedResult ==
  [NewResult EXCEPT !.doc_type = HealthBill,
                    !.doc_type_name = "geongang boheomryo gojiseo",
                    !.organization = "NHIS", !.risk_level = "HIGH",
                    !.action_required = TRUE, !.summary_one_line = "pay now",
                    !.steps_easy = <<"easy step 1">>, !.ocr_confidence = 100]
TextResults == {FailedResult, AnalysedResult}
FileResults == {UnreadableResult}

\* the outcome of the write in save_history: written, open() raised (the file
\* is left as it was), json.dump raised after open() truncated the file
WriteOutcomes == {"ok", "open_fails", "dump_fails"}

\* save_history: the file after the write; every exception is swallowed
SaveHistory(file, history, w) ==
  CASE w = "ok" -> [state |-> "valid", entries |-> LastN(history, HistoryCap)]
    [] w = "open_fails" -> file
    [] OTHER -> [state |-> "corrupt", entries |-> <<>>]

\* load_history: the list after startup
LoadHistory(file) == IF file.state = "valid" THEN file.entries ELSE <<>>

\* the entry add_to_history builds ("text input" when no filename is given;
\* "unknown" when the result has no type name)
HistoryEntry(response_data, filename, id, ts) ==
  [id |-> Get(response_data, "analysis_id", id),
   timestamp |-> ts,
   filename |-> IF filename = NULL THEN "text input" ELSE filename,
   doc_type_name |-> Get(response_data, "doc_type_name", "al su eopseum"),
   summary_one_line |-> Get(response_data, "summary_one_line", ""),
   risk_level |-> Get(response_data, "risk_level", "LOW"),
   result |-> response_data]
InsertAtEnd(history, e) == history \o <<e>>
\* analysis_history.insert(0, history_entry)
Insert0(history, e) == <<e>> \o history

\* add_to_history: insert at the front, then save_history
AddToHistory(response_data, filename, w) ==
  LET e == HistoryEntry(response_data, filename, api_count + 1, api_count + 1)
  IN /\ analysis_history' = Insert0(analysis_history, e)
     /\ history_file' = SaveHistory(history_file, Insert0(analysis_history, e), w)
     /\ api_appended' = <<e>> \o api_appended

Respond(op, arg, status, body) ==
  api_response' = [op |-> op, arg |-> arg, status |-> status, body |-> body]

\* POST /analyze_text: the whole handler (it has no await, so the event loop
\* runs it from start to end without running another handler)
HandleAnalyzeText(text_len, r, w) ==
  IF text_len < MinTextLen
  THEN /\ Respond("analyze_text", text_len, 400, [detail |-> "text too short"])
       /\ UNCHANGED <<analysis_history, history_file, api_count, api_appended>>
  ELSE LET response_data ==
             Put(Put(ToDict(r), "status", "success"), "analysis_id", api_count + 1)
       IN /\ AddToHistory(response_data, NULL, w)
          /\ api_count' = api_count + 1
          /\ Respond("analyze_text", text_len, 200, response_data)

\* extensions POST /analyze_document accepts
AllowedExtensions == {".pdf", ".png", ".jpg", ".jpeg", ".gif", ".bmp", ".webp"}

\* POST /analyze_document: the whole handler
HandleAnalyzeDocument(ext, r, w) ==
  IF ext \notin AllowedExtensions
  THEN /\ Respond("analyze_document", 0, 400, [detail |-> "unsupported format"])
       /\ UNCHANGED <<analysis_history, history_file, api_count, api_appended>>
  ELSE LET response_data ==
             Put(Put(Put(ToDict(r), "status", "success"), "analysis_id", api_count + 1),
                 "filename", "scan" \o ext)
       IN /\ AddToHistory(response_data, "scan" \o ext, w)
          /\ api_count' = api_count + 1
          /\ Respond("analyze_document", 0, 200, response_data)

AnalyzeTextRequest ==
  /\ api_count < MaxRequests
  /\ \E text_len \in {0, MinTextLen - 1, MinTextLen}, r \in TextResults, w \in WriteOutcomes :
       HandleAnalyzeText(text_len, r, w)
  /\ UNCHANGED nonavars

AnalyzeDocumentRequest ==
  /\ api_count < MaxRequests
  /\ \E ext \in {".png", ".txt"}, r \in FileResults, w \in WriteOutcomes :
       HandleAnalyzeDocument(ext, r, w)
  /\ UNCHANGED nonavars

\* the columns GET /history shows of an entry
HistoryRow(h) ==
  [id |-> h.id, timestamp |-> h.timestamp, filename |-> h.filename,
   doc_type_name |-> h.doc_type_name, summary_one_line |-> h.summary_one_line,
   risk_level |-> h.risk_level]

\* GET /history?limit=
GetHistory ==
  /\ \E limit \in -1..MaxLimit :
       Respond("history", limit, 200,
               [status |-> "success",
                count |-> Len(FirstN(analysis_history, limit)),
                history |-> [i \in 1..Len(FirstN(analysis_history, limit)) |->
                               HistoryRow(analysis_history[i])]])
  /\ UNCHANGED <<analysis_history, history_file, api_count, api_appended, nonavars>>

\* the first entry with the id, scanning from the front
Matches(history, id) == {i \in 1..Len(history) : history[i].id = id}
FirstMatch(history, id) ==
  CHOOSE i \in Matches(history, id) : \A k \in Matches(history, id) : i <= k

\* GET /history/{analysis_id}
GetHistoryDetail ==
  /\ \E id \in 0..MaxLimit + 1 :
       IF Matches(analysis_history, id) # {}
       THEN Respond("history_detail", id, 200,
                    Put(analysis_history[FirstMatch(analysis_history, id)].result,
                        "status", "success"))
       ELSE Respond("history_detail", id, 404, [detail |-> "not found"])
  /\ UNCHANGED <<analysis_history, history_file, api_count, api_appended, nonavars>>

\* DELETE /history: the whole handler
HandleClearHistory(w) ==
  /\ analysis_history' = <<>>
  /\ history_file' = SaveHistory(history_file, <<>>, w)
  /\ api_appended' = <<>>
  /\ Respond("clear", 0, 200, [status |-> "success"])
  /\ UNCHANGED api_count

ClearHistory ==
  /\ \E w \in WriteOutcomes : HandleClearHistory(w)
  /\ UNCHANGED nonavars

\* the knowledge file as get_all_contacts finds it
KnowledgeFiles == {"missing", "unreadable", "malformed", "no_summary", "ok"}
\* contact_summary of a readable knowledge file
ContactSummary == [NPS |-> [phone |-> "1355", website |-> "https://www.nps.or.kr"]]
\* get_all_contacts
GetAllContacts(kf) ==
  CASE kf = "missing" -> Ok(EmptyDict)
    [] kf = "unreadable" -> Fail("OSError")
    [] kf = "malformed" -> Fail("JSONDecodeError")
    [] kf = "no_summary" -> Ok(EmptyDict)
    [] OTHER -> Ok(ContactSummary)
\* the fallback mapping of get_contacts
FallbackContacts ==
  [NPS |-> [phone |-> "1355", website |-> "https://www.nps.or.kr"],
   NHIS |-> [phone |-> "1577-1000", website |-> "https://www.nhis.or.kr"],
   Bokjiro |-> [phone |-> "129", website |-> "https://www.bokjiro.go.kr"],
   Hometax |-> [phone |-> "126", website |-> "https://www.hometax.go.kr"]]

\* GET /contacts
GetContacts ==
  /\ \E kf \in KnowledgeFiles :
       LET r == GetAllContacts(kf)
       IN Respond("contacts", kf, 200,
                  [status |-> "success",
                   contacts |-> IF r.exc # "" THEN FallbackContacts ELSE r.val])
  /\ UNCHANGED <<analysis_history, history_file, api_count, api_appended, nonavars>>

\* what an earlier run of the process left in HISTORY_FILE
OldEntry ==
  HistoryEntry(Put(Put(ToDict(AnalysedResult), "status", "success"), "analysis_id", 0),
               NULL, 0, 0)
StartupFiles ==
  {[state |-> "missing", entries |-> <<>>],
   [state |-> "corrupt", entries |-> <<>>],
   [state |-> "valid", entries |-> <<OldEntry>>]}

\* the API process after import: load_history() has run
InitApi ==
  /\ PipelineInit /\ JsonOff /\ RemoteOff /\ TwoOff /\ UnitOff
  /\ history_file \in StartupFiles
  /\ analysis_history = LoadHistory(history_file)
  /\ api_appended = LoadHistory(history_file)
  /\ api_response = NoResponse
  /\ api_count = 0

NextApi ==
  \/ AnalyzeTextRequest
  \/ AnalyzeDocumentRequest
  \/ GetHistory
  \/ GetHistoryDetail
  \/ ClearHistory
  \/ GetContacts

\* the requests one API process serves, one handler at a time
SpecApi == InitApi /\ [][NextApi]_vars

\* a long run of analyses of one text and of clears, every write succeeding
CapAnalyzeText ==
  /\ api_count < HistoryCap + MaxOver
  /\ HandleAnalyzeText(MinTextLen, AnalysedResult, "ok")
  /\ UNCHANGED nonavars

InitCap ==
  /\ PipelineInit /\ JsonOff /\ RemoteOff /\ TwoOff /\ UnitOff
  /\ history_file = [state |-> "missing", entries |-> <<>>]
  /\ analysis_history = LoadHistory(history_file)
  /\ api_appended = <<>>
  /\ api_response = NoResponse
  /\ api_count = 0

CapClearHistory ==
  /\ HandleClearHistory("ok")
  /\ UNCHANGED nonavars

NextCap == CapAnalyzeText \/ CapClearHistory

\* more analyses than the history is meant to keep
SpecCap == InitCap /\ [][NextCap]_vars

(* ----------------------------- remote calls ---------------------------- *)
\* how long the model follows a call that is not answered
MaxWait == 2

\* OpenAI(api_key=settings.openai_api_key): what every client is built with
ClientOptions == [api_key |-> "openai_api_key"]

\* the remote call sites of one analysis: the vision call of the OCR engine,
\* the JSON call of the classifier and of the extractor, the embedding of the
\* search query, the summary call of the retriever, the JSON call of the
\* planner and of the simplifier
RemoteSites == {"ocr", "classify", "extract", "embed", "summary", "plan", "simplify"}
\* the keyword arguments of create() at each site
CallKwargs(site) ==
  CASE site = "ocr" ->
         [model |-> "gpt-4o-mini", messages |-> "image", max_tokens |-> 4000]
    [] site = "embed" -> [model |-> "embedding_model", input |-> "query"]
    [] site = "summary" ->
         [model |-> "openai_model", messages |-> "prompts", temperature |-> "0.3",
          max_tokens |-> 300]
    [] OTHER ->
         [model |-> "openai_model", messages |-> "prompts", temperature |-> "0.2",
          max_tokens |-> 2000, response_format |-> "json_object"]
\* the options in force for a call: those of the client, overridden by the
\* keyword arguments of the call
CallOptions(site) ==
  [k \in DOMAIN ClientOptions \cup DOMAIN CallKwargs(site) |->
     IF Has(CallKwargs(site), k) THEN CallKwargs(site)[k] ELSE ClientOptions[k]]
HasTimeout(options) == Has(options, "timeout")

AfterCallRetrying(site, how) ==
  IF how = "error" THEN site
  ELSE IF site = "simplify" THEN "done"
  ELSE IF site = "ocr" THEN "classify"
  ELSE IF site = "classify" THEN "extract"
  ELSE IF site = "extract" THEN "embed"
  ELSE IF site = "embed" /\ how = "ok" THEN "summary"
  ELSE IF site = "plan" THEN "simplify"
  ELSE "plan"
\* where the analysis goes after a call: OCR errors become text, retrieval
\* errors are caught by the retriever, any other error ends the analysis
AfterCall(site, how) ==
  CASE site = "ocr" -> "classify"
    [] site = "classify" -> IF how = "ok" THEN "extract" ELSE "done"
    [] site = "extract" -> IF how = "ok" THEN "embed" ELSE "done"
    [] site = "embed" -> IF how = "ok" THEN "summary" ELSE "plan"
    [] site = "summary" -> "plan"
    [] site = "plan" -> IF how = "ok" THEN "simplify" ELSE "done"
    [] OTHER -> "done"

NoCall == [site |-> "", options |-> EmptyDict]
CallEnds(how) ==
  /\ r_trace' = Append(r_trace, [site |-> r_call.site, how |-> how, waited |-> r_waited])
  /\ r_pc' = AfterCall(r_call.site, how)
  /\ r_call' = NoCall
  /\ r_waited' = 0

\* client.chat.completions.create(...) / client.embeddings.create(...) is entered
RemoteCall ==
  /\ r_pc \in RemoteSites
  /\ r_call = NoCall
  /\ r_call' = [site |-> r_pc, options |-> CallOptions(r_pc)]
  /\ r_waited' = 0
  /\ UNCHANGED <<r_pc, r_trace, nonrvars>>

\* the service answers (an embedding search may find nothing: "empty")
RemoteAnswers ==
  /\ r_call # NoCall
  /\ \E how \in (IF r_call.site = "embed" THEN {"ok", "empty"} ELSE {"ok"}) :
       CallEnds(how)
  /\ UNCHANGED nonrvars

\* the call raises (connection refused, API error)
RemoteRaises ==
  /\ r_call # NoCall
  /\ CallEnds("error")
  /\ UNCHANGED nonrvars

\* the service stays silent for one more unit of time: the call goes on
\* waiting, unless a timeout is in force and is reached
RemoteSilent ==
  /\ r_call # NoCall
  /\ r_waited < MaxWait
  /\ IF HasTimeout(r_call.options) /\ r_waited + 1 >= r_call.options["timeout"]
     THEN CallEnds("error")
     ELSE /\ r_waited' = r_waited + 1
          /\ UNCHANGED <<r_pc, r_call, r_trace>>
  /\ UNCHANGED nonrvars

InitRemote ==
  /\ PipelineInit /\ JsonOff /\ ApiOff /\ TwoOff /\ UnitOff
  /\ r_pc \in {"ocr", "classify"}
  /\ r_call = NoCall
  /\ r_waited = 0
  /\ r_trace = <<>>

NextRemote == RemoteCall \/ RemoteAnswers \/ RemoteRaises \/ RemoteSilent

\* the remote calls of one analysis, each answered, failing or silent
SpecRemote == InitRemote /\ [][NextRemote]_vars

(* ------------------- two requests on one pipeline ---------------------- *)
\* the fields of AnalysisResult that hold a container (default_factory), in
\* the order the dataclass declares them
Containers == <<"key_info", "key_points", "steps_easy", "action_plan", "evidence_chunks">>
ContainerSet == {Containers[i] : i \in 1..Len(Containers)}

\* an object on the heap: its value, and (history) the request that made it
Cell(r, v) == [by |-> r, val |-> v]

\* the address the object AnalysisResult() creates gets: a new one, behind
\* the five containers its default factories create
ResultAddressOnPipeline(heap) == Len(Containers) + 1
ResultAddress(heap) == Len(heap) + Len(Containers) + 1

\* result = AnalysisResult(): five new containers and the object holding them
Construct(heap, r) ==
  heap
  \o [i \in 1..Len(Containers) |-> Cell(r, NewResult[Containers[i]])]
  \o <<Cell(r, [f \in DOMAIN NewResult |->
                  IF \E i \in 1..Len(Containers) : Containers[i] = f
                  THEN Len(heap) + (CHOOSE i \in 1..Len(Containers) : Containers[i] = f)
                  ELSE NewResult[f]])>>

\* result.f = v for every f of writes: a scalar is stored in the object, a
\* container the stage returned is a new object the field is bound to
SetFields(heap, ref, r, writes) ==
  LET cs == SelectSeq(Containers, LAMBDA f : f \in DOMAIN writes)
      at(f) == Len(heap) + (CHOOSE i \in 1..Len(cs) : cs[i] = f)
      obj == [f \in DOMAIN heap[ref].val |->
                IF f \notin DOMAIN writes THEN heap[ref].val[f]
                ELSE IF f \in ContainerSet THEN at(f)
                ELSE writes[f]]
  IN [heap EXCEPT ![ref] = Cell(r, obj)] \o [i \in 1..Len(cs) |-> Cell(r, writes[cs[i]])]

\* the result as its reader sees it: every container field followed
Deref(heap, ref) ==
  [f \in DOMAIN heap[ref].val |->
     IF f \in ContainerSet THEN heap[heap[ref].val[f]].val ELSE heap[ref].val[f]]

\* the assignments analyze_text makes to result after a stage returned val
StageWrites(stage, val, risk_level) ==
  CASE stage = "classify" ->
         [doc_type |-> Get(val, "doc_type", OtherDoc),
          doc_type_name |-> Get(val, "doc_type_name", "gita gonggong munseo"),
          organization |-> Get(val, "organization", "")]
    [] stage = "extract" ->
         [key_info |-> val,
          action_required |-> Get(val, "action_required", FALSE),
          risk_level |-> RiskFromPenalty(Get(val, "penalty_risk", "NONE"))]
    [] stage = "retrieve" -> [evidence_chunks |-> Get(val, "retrieved_chunks", <<>>)]
    [] stage = "plan" -> [action_plan |-> val]
    [] stage = "simplify" ->
         [summary_one_line |-> Get(val, "summary_one_line", ""),
          what_is_this |-> Get(val, "what_is_this", ""),
          key_points |-> Get(val, "key_points", <<>>),
          steps_easy |-> Get(val, "steps_easy", <<>>),
          risk_level |-> Get(val, "risk_level", risk_level),
          dont_worry |-> Get(val, "dont_worry", ""),
          need_help_message |-> Get(val, "need_help_message", "")]
\* the assignments of the except block
ExceptWrites(e) ==
  [summary_one_line |-> MsgFailed, what_is_this |-> "error: " \o e,
   steps_easy |-> <<StepRetry>>]

\* what a request keeps in its locals: one entry per stage that returned or
\* raised, with the clock reading
Event(stage, ret, t) == [stage |-> stage, exc |-> ret.exc, val |-> ret.val, at |-> t]
Local(events, stage) == events[CHOOSE i \in 1..Len(events) : events[i].stage = stage].val

\* the replies a stage gets while serving request r: the call fails, or the
\* answer parses to an object, the full object p for the first request and an
\* empty one for the second
TwoReplies(r, p) == {LlmFail, LlmText(<<"{", "}">>, IF r = 1 THEN p ELSE EmptyDict)}
TwoClassifyReplies(r) ==
  TwoReplies(r, CHOOSE p \in ClassifyPayloads \ {EmptyDict} : p.doc_type = HealthBill)
TwoFactReplies(r) ==
  TwoReplies(r, CHOOSE p \in FullFacts :
                  p.penalty_risk = "HIGH" /\ p.action_required /\ p.amount # NULL)
TwoPlanReplies(r) == TwoReplies(r, CHOOSE p \in PlanPayloads : Has(p, "urgency"))
TwoRenderReplies(r) ==
  TwoReplies(r, CHOOSE p \in FullRenderings :
                  p.risk_level = "HIGH" /\ p.steps_easy # <<>> /\ p.dont_worry # "")
\* the retrievals of request r: the first request's search finds entries,
\* the second one's finds none
TwoRagEnvs(r) ==
  {e \in RagEnvs : /\ ~e.search_fails /\ ~e.summary_fails
                   /\ (e.hits # <<>>) = (r = 1)}

StageAfter(stage) ==
  CASE stage = "classify" -> "extract"
    [] stage = "extract" -> "retrieve"
    [] stage = "retrieve" -> "plan"
    [] stage = "plan" -> "simplify"
    [] stage = "simplify" -> "done"

\* the result one request alone builds from the same stage outcomes
RECURSIVE RunAlone(_)
RunAlone(events) ==
  IF Len(events) = 0 THEN NewResult
  ELSE LET ev == events[Len(events)]
           prev == RunAlone(SubSeq(events, 1, Len(events) - 1))
           elapsed == ev.at - events[1].at
       IN IF ev.stage = "start" THEN [NewResult EXCEPT !.ocr_confidence = 100]
          ELSE IF ev.exc # ""
          THEN [FailureResult(prev, ev.exc) EXCEPT !.processing_time_ms = elapsed]
          ELSE LET w == StageWrites(ev.stage, ev.val, prev.risk_level)
                   res == [f \in DOMAIN prev |-> IF f \in DOMAIN w THEN w[f] ELSE prev[f]]
               IN IF ev.stage = "simplify"
                  THEN [res EXCEPT !.processing_time_ms = elapsed]
                  ELSE res

\* analyze_text is entered: start_time, result = AnalysisResult(),
\* result.ocr_confidence = 100.0
TStart ==
  /\ \E r \in Requests :
       /\ t_pc[r] = "off"
       /\ t_ref' = [t_ref EXCEPT ![r] = ResultAddress(t_heap)]
       /\ t_heap' = SetFields(Construct(t_heap, r), t_ref'[r], r, [ocr_confidence |-> 100])
       /\ t_locals' = [t_locals EXCEPT ![r] = <<Event("start", Ok(EmptyDict), t_now)>>]
       /\ t_pc' = [t_pc EXCEPT ![r] = "classify"]
  /\ UNCHANGED <<t_now, t_vector_store, nontvars>>

\* one request runs its next stage on the shared pipeline and stores what
\* the stage returned; a raise runs the except and finally blocks
TStage ==
  /\ \E r \in Requests :
       /\ t_pc[r] \in {"classify", "extract", "retrieve", "plan", "simplify"}
       /\ \E llm \in (CASE t_pc[r] = "classify" -> TwoClassifyReplies(r)
                        [] t_pc[r] = "extract" -> TwoFactReplies(r)
                        [] t_pc[r] = "plan" -> TwoPlanReplies(r)
                        [] t_pc[r] = "simplify" -> TwoRenderReplies(r)
                        [] OTHER -> {LlmFail}),
             env \in (IF t_pc[r] = "retrieve" THEN TwoRagEnvs(r)
                      ELSE {CHOOSE e \in TwoRagEnvs(r) : TRUE}) :
            LET stage == t_pc[r]
                res == t_heap[t_ref[r]].val
                ret ==
                  CASE stage = "classify" -> ClassifierProcess(llm)
                    [] stage = "extract" -> ExtractorProcess(llm)
                    [] stage = "retrieve" ->
                         RagProcess(t_vector_store, res.doc_type,
                                    Local(t_locals[r], "extract"), env)
                    [] stage = "plan" ->
                         PlannerProcess(res.doc_type, Local(t_locals[r], "extract"),
                                        Local(t_locals[r], "retrieve"), llm)
                    [] stage = "simplify" ->
                         SimplifierProcess(res.doc_type_name, Local(t_locals[r], "extract"),
                                           Local(t_locals[r], "plan"),
                                           Local(t_locals[r], "retrieve"), llm)
                elapsed == [processing_time_ms |-> t_now' - t_locals[r][1].at]
                stored ==
                  IF ret.exc # "" THEN SetFields(t_heap, t_ref[r], r, ExceptWrites(ret.exc))
                  ELSE SetFields(t_heap, t_ref[r], r, StageWrites(stage, ret.val, res.risk_level))
            IN /\ t_now' = t_now + 1
               /\ t_vector_store' = IF stage = "retrieve"
                                     THEN StoreAfter(t_vector_store, env)
                                     ELSE t_vector_store
               /\ t_locals' = [t_locals EXCEPT ![r] = Append(@, Event(stage, ret, t_now'))]
               /\ t_pc' = [t_pc EXCEPT ![r] = IF ret.exc # "" THEN "done" ELSE StageAfter(stage)]
               /\ t_heap' = IF t_pc'[r] = "done"
                            THEN SetFields(stored, t_ref[r], r, elapsed)
                            ELSE stored
               /\ t_ref' = t_ref
  /\ UNCHANGED nontvars

InitTwo ==
  /\ PipelineInit /\ JsonOff /\ ApiOff /\ RemoteOff /\ UnitOff
  /\ TwoOff

NextTwo == TStart \/ TStage

\* two analyze_text requests interleaved stage by stage on one pipeline
SpecTwo == InitTwo /\ [][NextTwo]_vars

(* ------------------- extractor: rule-based candidates ------------------ *)
\* A text is a sequence of characters. A Korean word the patterns name is one
\* character per romanised unit ("napbu" "geum" "aek" = the word for payment
\* amount, "won" = the currency word, "nyeon" "wol" "il" = year, month, day).
Digits == {"0", "1", "2", "3", "4", "5", "6", "7", "8", "9"}
Space == {" "}
Chars ==
  Digits \cup Space \cup
  {",", "-", ".", "/", ":", ")", "won", "W", "geum", "aek", "hapgye", "chongaek",
   "napbu", "gihan", "magam", "nyeon", "wol", "il", "jeonhwa", "yeollakcheo",
   "munui", "gyejwa", "beonho", "gasang", "x"}

\* A pattern is a sequence of items; an item repeats a unit (a sequence of
\* character classes) between min and max times, greedily; max < 0: no limit
Rep(unit, min, max) == [unit |-> unit, min |-> min, max |-> max]
One(cls) == Rep(<<cls>>, 1, 1)
Lit(c) == One({c})
Star(cls) == Rep(<<cls>>, 0, -1)
Plus(cls) == Rep(<<cls>>, 1, -1)
Opt(cls) == Rep(<<cls>>, 0, 1)

\* re matching at pos: the position after the match the backtracking matcher
\* finds first (each item as long as the rest allows), 0 when there is none
RECURSIVE MatchFrom(_, _, _, _)
MatchFrom(re, i, t, pos) ==
  IF i > Len(re) THEN pos
  ELSE LET u == Len(re[i].unit)
           cap == IF re[i].max < 0 THEN (Len(t) - pos + 1) \div u ELSE re[i].max
           fits(k) == \A j \in 0..(k * u - 1) :
                        /\ pos + j <= Len(t)
                        /\ t[pos + j] \in re[i].unit[(j % u) + 1]
           ks == {k \in re[i].min..cap : fits(k) /\ MatchFrom(re, i + 1, t, pos + k * u) # 0}
       IN IF ks = {} THEN 0
          ELSE MatchFrom(re, i + 1, t, pos + u * (CHOOSE k \in ks : \A l \in ks : l <= k))

\* pattern.finditer(text): the matches left to right, none overlapping;
\* each with where it starts, where its group 1 starts and where it ends
RECURSIVE FindIter(_, _, _)
FindIter(pat, t, pos) ==
  IF pos > Len(t) THEN <<>>
  ELSE LET e == MatchFrom(pat.pre \o pat.grp, 1, t, pos)
       IN IF e = 0 THEN FindIter(pat, t, pos + 1)
          ELSE <<[from |-> pos, grp |-> MatchFrom(pat.pre, 1, t, pos), to |-> e]>>
               \o FindIter(pat, t, e)
\* match.group(0); match.group(1) for a pattern whose group 1 is its tail
\* and starts with a class the item before it cannot match
Group0(t, m) == SubSeq(t, m.from, m.to - 1)
Group1(t, m) == SubSeq(t, m.grp, m.to - 1)

\* \d{1,3}(?:,\d{3})*
Number == <<Rep(<<Digits>>, 1, 3), Rep(<<{","}, Digits, Digits, Digits>>, 0, -1)>>
Pat(pre, grp) == [pre |-> pre, grp |-> grp]
ColonSpace == {":"} \cup Space
\* self.amount_patterns
AmountPatterns ==
  <<Pat(<<>>, Number \o <<Star(Space), Lit("won")>>),
    Pat(<<Lit("W"), Star(Space)>>, Number),
    Pat(<<Lit("geum"), Star(Space)>>, Number \o <<Star(Space), Lit("won")>>),
    Pat(<<Lit("hapgye"), Star(ColonSpace)>>, Number \o <<Star(Space), Lit("won")>>),
    Pat(<<Lit("chongaek"), Star(ColonSpace)>>, Number \o <<Star(Space), Lit("won")>>),
    Pat(<<Lit("napbu"), Lit("geum"), Lit("aek"), Star(ColonSpace)>>,
        Number \o <<Star(Space), Lit("won")>>)>>
DateSep == {"-", ".", "/"}
\* \d{4}[-./]\d{1,2}[-./]\d{1,2}
PlainDate ==
  <<Rep(<<Digits>>, 4, 4), One(DateSep), Rep(<<Digits>>, 1, 2), One(DateSep),
    Rep(<<Digits>>, 1, 2)>>
\* self.date_patterns
DatePatterns ==
  <<Pat(<<>>, <<Rep(<<Digits>>, 4, 4), One(DateSep \cup {"nyeon"}), Star(Space),
                Rep(<<Digits>>, 1, 2), One(DateSep \cup {"wol"}), Star(Space),
                Rep(<<Digits>>, 1, 2), Opt({"il"})>>),
    Pat(<<>>, <<Rep(<<Digits>>, 4, 4), Lit("."), Rep(<<Digits>>, 2, 2), Lit("."),
                Rep(<<Digits>>, 2, 2)>>),
    Pat(<<Lit("napbu"), Lit("gihan"), Star(ColonSpace)>>, PlainDate),
    Pat(<<Lit("magam"), Lit("il"), Star(ColonSpace)>>, PlainDate),
    Pat(<<Lit("gihan"), Star(ColonSpace)>>, PlainDate)>>
DigitsDash == Digits \cup {"-"}
\* self.phone_patterns
PhonePatterns ==
  <<Pat(<<>>, <<Rep(<<Digits>>, 2, 4), One({"-", ")"} \cup Space), Rep(<<Digits>>, 3, 4),
                One({"-"} \cup Space), Rep(<<Digits>>, 4, 4)>>),
    Pat(<<>>, <<Lit("1"), Rep(<<Digits>>, 3, 3)>>),
    Pat(<<Lit("jeonhwa"), Star(ColonSpace)>>, <<Plus(DigitsDash)>>),
    Pat(<<Lit("yeollakcheo"), Star(ColonSpace)>>, <<Plus(DigitsDash)>>),
    Pat(<<Lit("munui"), Star(ColonSpace)>>, <<Plus(DigitsDash)>>)>>
\* self.account_patterns
AccountPatterns ==
  <<Pat(<<Lit("gyejwa"), Star(Chars \ Digits)>>,
        <<Rep(<<Digits>>, 2, 4), Opt({"-"} \cup Space), Rep(<<Digits>>, 2, 6),
          Opt({"-"} \cup Space), Rep(<<Digits>>, 2, 6)>>),
    Pat(<<Lit("napbu"), Lit("beonho"), Star(ColonSpace)>>, <<Plus(DigitsDash)>>),
    Pat(<<Lit("gasang"), Lit("gyejwa"), Star(ColonSpace)>>, <<Plus(DigitsDash)>>)>>

\* every match of a family, patterns in their order, matches left to right
RECURSIVE AllMatches(_, _, _)
AllMatches(patterns, t, group) ==
  IF patterns = <<>> THEN <<>>
  ELSE LET ms == FindIter(Head(patterns), t, 1)
       IN [i \in 1..Len(ms) |-> IF group = 1 THEN Group1(t, ms[i]) ELSE Group0(t, ms[i])]
          \o AllMatches(Tail(patterns), t, group)
AppendAlways(list, x) == Append(list, x)
\* if x not in list: list.append(x)
AppendNew(list, x) ==
  IF \E i \in 1..Len(list) : list[i] = x THEN list ELSE Append(list, x)
\* the loops of one family
RECURSIVE Collect(_, _)
Collect(list, ms) ==
  IF ms = <<>> THEN list ELSE Collect(AppendNew(list, Head(ms)), Tail(ms))

\* InfoExtractor._extract_with_rules
ExtractWithRules(t) ==
  [amounts |-> Collect(<<>>, AllMatches(AmountPatterns, t, 0)),
   dates |-> Collect(<<>>, AllMatches(DatePatterns, t, 0)),
   phones |-> Collect(<<>>, AllMatches(PhonePatterns, t, 0)),
   accounts |-> Collect(<<>>, AllMatches(AccountPatterns, t, 1))]

\* the candidates _extract_with_llm puts into its prompt
ShownCandidates(rule_candidates) ==
  [amounts |-> FirstN(rule_candidates.amounts, 5),
   dates |-> FirstN(rule_candidates.dates, 5),
   phones |-> FirstN(rule_candidates.phones, 5),
   accounts |-> FirstN(rule_candidates.accounts, 3)]

\* pieces of document text
AmountText == <<"1", "5", "0", ",", "0", "0", "0", "won">>
DateText == <<"2", "0", "2", "5", "-", "0", "1", "-", "3", "1">>
PhoneText == <<"1", "5", "7", "7", "-", "1", "0", "0", "0">>
Fragments ==
  {AmountText, DateText, PhoneText,
   <<"1", "5", "8", "8", "-", "1", "2", "3", "4">>,
   <<"0", "2", "-", "1", "2", "3", "-", "4", "5", "6", "7">>,
   <<"1", "2", "3", "-", "4", "5", "6">>,
   <<"napbu", "geum", "aek", ":", " ">>, <<"napbu", "gihan", ":", " ">>,
   <<"munui", ":", " ">>, <<"jeonhwa", ":", " ">>, <<"gyejwa", " ", "beonho", " ">>,
   <<"napbu", "beonho", ":">>, <<",", " ">>, <<"x">>}
RECURSIVE Concat(_)
Concat(fs) == IF fs = <<>> THEN <<>> ELSE Head(fs) \o Concat(Tail(fs))
\* the scenario text: "payment amount: 150,000won, payment due: 2025-01-31,
\* inquiries: 1577-1000"
ScenarioText ==
  Concat(<<<<"napbu", "geum", "aek", ":", " ">>, AmountText, <<",", " ">>,
           <<"napbu", "gihan", ":", " ">>, DateText, <<",", " ">>,
           <<"munui", ":", " ">>, PhoneText>>)
\* a text with two inquiry numbers, each after its keyword, the first one
\* given again at the end
TwoPhonesText ==
  Concat(<<<<"munui", ":", " ">>, PhoneText, <<",", " ">>, <<"jeonhwa", ":", " ">>,
           <<"1", "5", "8", "8", "-", "1", "2", "3", "4">>, <<",", " ">>,
           <<"munui", ":", " ">>, PhoneText>>)
MaxFragments == 2
RuleTexts ==
  {Concat(fs) : fs \in SeqsUpTo(Fragments, MaxFragments)}
  \cup {ScenarioText, TwoPhonesText}

\* _extract_with_rules(text) is called
RulesExtract ==
  /\ u_pc = "call" /\ u_fn = "rules"
  /\ u_out' = [rule_candidates |-> ExtractWithRules(u_in.text)]
  /\ u_pc' = "ruled"
  /\ UNCHANGED <<u_fn, u_in, nonuvars>>
\* _extract_with_llm builds candidates_str
RulesShow ==
  /\ u_pc = "ruled" /\ u_fn = "rules"
  /\ u_out' = [rule_candidates |-> u_out.rule_candidates,
               shown |-> ShownCandidates(u_out.rule_candidates)]
  /\ u_pc' = "done"
  /\ UNCHANGED <<u_fn, u_in, nonuvars>>

InitRules ==
  /\ PipelineInit /\ JsonOff /\ ApiOff /\ RemoteOff /\ TwoOff
  /\ u_pc = "call"
  /\ u_fn = "rules"
  /\ u_in \in {[text |-> t] : t \in RuleTexts}
  /\ u_out = EmptyDict
NextRules == RulesExtract \/ RulesShow
\* InfoExtractor.process up to the refinement prompt, over the document texts
SpecRules == InitRules /\ [][NextRules]_vars

(* --------------------- planner: the decision alone --------------------- *)
\* type codes as word sequences: "gojiseo" = bill, "napbu" = payment,
\* "tongjiseo" = notice, "chenap" = arrears, "annaemun" = informational notice
MaxCodeWords == 2
PlanCodeWords == {"gojiseo", "napbu", "tongjiseo", "chenap", "annaemun", "gita"}
PlanCodes == SeqsUpTo(PlanCodeWords, MaxCodeWords)
\* facts records as the extractor returns them
PlanFacts ==
  [amount : {NULL, "", "150,000won"}, due_date : {NULL, "2025-01-31"},
   penalty_risk : RiskLevels, action_required : BOOLEAN]

\* process: action_type = _determine_action_type(...), urgency = _determine_urgency(...)
PlanDecide ==
  /\ u_pc = "call" /\ u_fn = "plan"
  /\ u_out' = [action_type |-> DetermineActionType(u_in.doc_type, u_in.key_info),
               urgency |-> DetermineUrgency(u_in.key_info)]
  /\ u_pc' = "decided"
  /\ UNCHANGED <<u_fn, u_in, nonuvars>>
\* process: result = _generate_action_plan(...), returned to the caller
PlanGenerate ==
  /\ u_pc = "decided" /\ u_fn = "plan"
  /\ \E llm \in LlmReplies(PlanPayloads) :
       u_out' = [action_type |-> u_out.action_type, urgency |-> u_out.urgency,
                 plan |-> PlannerProcess(u_in.doc_type, u_in.key_info, EmptyDict, llm)]
  /\ u_pc' = "done"
  /\ UNCHANGED <<u_fn, u_in, nonuvars>>

InitPlanner ==
  /\ PipelineInit /\ JsonOff /\ ApiOff /\ RemoteOff /\ TwoOff
  /\ u_pc = "call"
  /\ u_fn = "plan"
  /\ u_in \in [doc_type : PlanCodes, key_info : PlanFacts]
  /\ u_out = EmptyDict
NextPlanner == PlanDecide \/ PlanGenerate
\* ActionPlanner.process over the type codes and the facts records
SpecPlanner == InitPlanner /\ [][NextPlanner]_vars

(* ------------------ simplifier: the help-channel note ------------------ *)
\* json.dumps / json.loads of an action guide: the string is kept as the
\* pair of a tag and the object it encodes; as a string it is never empty
JsonDumps(obj) == <<"json", obj>>
JsonLoadsGuide(str) == str[2]

\* action_guide objects of knowledge items
ActionGuides ==
  {EmptyDict,
   [phone |-> [number |-> "1355", hours |-> "9-18", script |-> "ask about the notice"]],
   [online |-> [url |-> "nps.or.kr"]],
   [visit |-> [place |-> "community centre", documents |-> <<"id card", "the notice">>],
    phone |-> [number |-> "129", hours |-> "24h"]]}
\* load_knowledge_base: the metadata stored with a knowledge item
ItemMetadata(guide) ==
  [source_name |-> "NPS", doc_type |-> "notice", topic |-> "help",
   action_guide |-> JsonDumps(guide)]
\* VectorStore.search: one formatted result for a knowledge item
IndexHit(guide) == [text |-> "kb text", score |-> "0.9", metadata |-> ItemMetadata(guide)]
MaxNoteChunks == 3
NoteHits == SeqsUpTo({IndexHit(g) : g \in ActionGuides}, MaxNoteChunks)

\* the lines the simplifier appends for one guide: phone, online, visit
GuideNote(guide) ==
  (IF Has(guide, "phone")
   THEN <<"phone", Get(guide["phone"], "number", ""), Get(guide["phone"], "hours", "")>>
        \o (IF Has(guide["phone"], "script") THEN <<"say", guide["phone"]["script"]>>
            ELSE <<>>)
   ELSE <<>>)
  \o (IF Has(guide, "online")
      THEN <<"online", Get(guide["online"], "url", "")>>
           \o (IF Has(guide["online"], "app") THEN <<"app", guide["online"]["app"]>>
               ELSE <<>>)
      ELSE <<>>)
  \o (IF Has(guide, "visit")
      THEN <<"visit", Get(guide["visit"], "place", "")>>
           \o (IF Has(guide["visit"], "documents")
               THEN <<"bring">> \o guide["visit"]["documents"] ELSE <<>>)
      ELSE <<>>)

\* "Extract action guide from RAG context": the first chunk whose metadata
\* has a truthy action_guide is used, and the loop breaks there
RECURSIVE ActionGuideInfo(_)
ActionGuideInfo(chunks) ==
  IF chunks = <<>> THEN <<>>
  ELSE LET metadata == Get(Head(chunks), "metadata", EmptyDict)
       IN IF Has(metadata, "action_guide")
          THEN GuideNote(JsonLoadsGuide(metadata["action_guide"]))
          ELSE ActionGuideInfo(Tail(chunks))

\* rag_agent.process(...) as called by the pipeline, the search returning u_in.hits
NoteRetrieve ==
  /\ u_pc = "call" /\ u_fn = "note"
  /\ u_out' = [rag_context |->
                 RagProcess("ready", OtherDoc, FactDefaults,
                            [construct_fails |-> FALSE, search_fails |-> FALSE,
                             hits |-> u_in.hits, summary_fails |-> FALSE,
                             summary |-> "summary"]).val]
  /\ u_pc' = "retrieved"
  /\ UNCHANGED <<u_fn, u_in, nonuvars>>
\* simplifier.process(..., rag_context=rag_result): the note for the prompt
NoteBuild ==
  /\ u_pc = "retrieved" /\ u_fn = "note"
  /\ u_out' = [rag_context |-> u_out.rag_context,
               action_guide_info |->
                 ActionGuideInfo(Get(u_out.rag_context, "retrieved_chunks", <<>>))]
  /\ u_pc' = "done"
  /\ UNCHANGED <<u_fn, u_in, nonuvars>>

InitNote ==
  /\ PipelineInit /\ JsonOff /\ ApiOff /\ RemoteOff /\ TwoOff
  /\ u_pc = "call"
  /\ u_fn = "note"
  /\ u_in \in {[hits |-> h] : h \in NoteHits}
  /\ u_out = EmptyDict
NextNote == NoteRetrieve \/ NoteBuild
\* retrieval and the simplifier's note, over the hits a search returns
SpecNote == InitNote /\ [][NextNote]_vars

(* ------------------------------- claims -------------------------------- *)
LlmStages == {"classify", "extract", "retrieve", "plan", "simplify"}
Called(stage) == \E i \in 1..Len(calls) : calls[i].stage = stage
CallOf(stage) == calls[CHOOSE i \in 1..Len(calls) : calls[i].stage = stage]
Returned_ == pc = "done" /\ outcome = "returned"

\* C1: when a stage (classification, extraction, retrieval, planning,
\* simplification) raises, under either entry point, the raising call is the
\* last stage call of the request, the entry point returns instead of raising,
\* and the result carries the fixed "analysis failed" summary and the single
\* "retry" step.
C1_StageFailureAborts ==
  raised_stage \in LlmStages =>
    /\ pc = "done"
    /\ calls[Len(calls)].stage = raised_stage
    /\ outcome = "returned"
    /\ result.summary_one_line = MsgFailed
    /\ result.steps_easy = <<StepRetry>>
C1_Witness ==
  /\ raised_stage = "plan"
  /\ entry = "analyze_text"
  /\ pc = "done"
  /\ result.what_is_this = "error: JSONDecodeError"

\* C2: once the extractor has returned, a text with a high-risk marker has
\* penalty_risk HIGH and action_required true in the facts, and a text with a
\* medium-risk marker has penalty_risk MEDIUM or HIGH, whatever the refinement
\* answered.
C2_MarkersForceRisk ==
  Has(key_info, "penalty_risk") =>
    /\ HasHighMarker(text) =>
         key_info["penalty_risk"] = "HIGH" /\ key_info["action_required"] = TRUE
    /\ HasMediumMarker(text) => key_info["penalty_risk"] \in {"MEDIUM", "HIGH"}

RiskRank(r) == CASE r = "HIGH" -> 3 [] r = "MEDIUM" -> 2 [] OTHER -> 1

\* C3: in every returned result that holds facts, risk_level is not lower
\* (LOW < MEDIUM < HIGH) than the level derived from the facts' penalty_risk.
C3_RiskNeverDowngraded ==
  (Returned_ /\ Has(result.key_info, "penalty_risk")) =>
    RiskRank(result.risk_level)
      >= RiskRank(RiskFromPenalty(result.key_info["penalty_risk"]))

StageRank(stage) ==
  CASE stage = "acquire" -> 1
    [] stage = "classify" -> 2
    [] stage = "extract" -> 3
    [] stage = "retrieve" -> 4
    [] stage = "plan" -> 5
    [] stage = "simplify" -> 6

\* C4: the stage calls of one analysis are made in the order acquisition,
\* classification, extraction, retrieval, planning, simplification, each at
\* most once and none skipped (analyze_text starts at classification); the
\* extractor gets the classified type, the retriever the classified type and
\* the extracted facts, the planner the facts and the retrieved context, the
\* simplifier the classified type name, the facts, the plan and the context.
C4_StagesInOrder ==
  \A i \in 1..Len(calls) :
    /\ StageRank(calls[i].stage) = i + (IF entry = "analyze_text" THEN 1 ELSE 0)
    /\ calls[i].stage \in {"classify", "extract", "retrieve"} =>
         calls[i].args.ocr_text = text
    /\ calls[i].stage \in {"extract", "retrieve", "plan"} =>
         calls[i].args.doc_type = classification["doc_type"]
    /\ calls[i].stage \in {"retrieve", "plan", "simplify"} =>
         /\ Has(key_info, "penalty_risk")
         /\ calls[i].args.key_info = key_info
    /\ calls[i].stage \in {"plan", "simplify"} =>
         /\ Has(rag_result, "retrieved_chunks")
         /\ calls[i].args.rag_context = rag_result
    /\ calls[i].stage = "simplify" =>
         /\ calls[i].args.doc_type = classification["doc_type_name"]
         /\ Has(action_plan, "steps")
         /\ calls[i].args.action_plan = action_plan
C4_Witness ==
  /\ pc = "done"
  /\ entry = "analyze"
  /\ raised_stage = ""
  /\ Len(calls) = 6
  /\ rag_result["retrieved_chunks"] # <<>>

\* C5: when the text to analyse is empty or whitespace only, under either
\* entry point, no classification, extraction, retrieval, planning or
\* simplification call is made, and the request returns the fixed "could not
\* read document" summary with the single retake step.
C5_BlankTextShortCircuits ==
  (entry # "" /\ raised_stage # "acquire" /\ Strip(text) = <<>>) =>
    /\ \A i \in 1..Len(calls) : calls[i].stage \notin LlmStages
    /\ pc = "done" =>
         /\ outcome = "returned"
         /\ result.summary_one_line = MsgUnreadable
         /\ result.steps_easy = <<StepRetake>>

\* C6: the action plan of every returned result has a non-empty steps sequence.
C6_PlanStepsNonEmpty ==
  Returned_ => Has(result.action_plan, "steps") /\ result.action_plan["steps"] # <<>>

\* C7: steps_easy of every result handed to the caller is non-empty, on the
\* success path for every rendering (steps_easy missing or empty included), on
\* the unreadable-text exit and on a stage failure.
C7_StepsEasyNonEmpty == pc = "done" => result.steps_easy # <<>>
C7_Witness ==
  /\ pc = "done"
  /\ raised_stage = ""
  /\ Called("simplify")
  /\ result.steps_easy = SimplifyDefaults.steps_easy

\* C8: after a stage failure the fields that earlier stages fill hold the
\* values they hold after a failure of the first stage (the defaults of a
\* fresh result).
C8_FailureResultNotPartial ==
  (pc = "done" /\ raised_stage \in LlmStages) =>
    \A f \in {"doc_type", "doc_type_name", "organization", "key_info",
              "action_required", "risk_level", "evidence_chunks", "action_plan"} :
      result[f] = NewResult[f]

\* C9: when constructing the vector store or calling search raises, the
\* retriever does not raise and returns no chunks and an empty summary, the
\* pipeline goes on to planning, and a run whose later stages do not raise
\* ends with a normal result.
C9_SearchUnavailableDegrades ==
  search_unavailable =>
    /\ raised_stage # "retrieve"
    /\ Has(rag_result, "retrieved_chunks")
    /\ rag_result["retrieved_chunks"] = <<>>
    /\ rag_result["summary"] = ""
    /\ result.evidence_chunks = <<>>
    /\ pc = "plan" \/ Called("plan")
    /\ (pc = "done" /\ raised_stage = "") =>
         /\ Called("simplify")
         /\ outcome = "returned"
         /\ result.summary_one_line \notin {MsgFailed, MsgUnreadable}
C9_Witness ==
  /\ search_unavailable
  /\ vector_store = "none"
  /\ pc = "done"
  /\ raised_stage = ""
  /\ result.summary_one_line = "pay now"

\* C10: for every response text, _call_llm_json returns the parsed object or
\* the sentinel {error, raw_response} that holds the response, and the stage
\* that called it does not raise.
C10_JsonHelperTotal ==
  (j_pc = "done" /\ ~j_llm.fail) =>
    /\ j_ret.exc = ""
    /\ j_ret.isdict
    /\ \/ ParsesToObject(j_llm.resp) /\ j_ret.val = j_llm.members
       \/ j_ret.val = Sentinel(j_llm.resp)
    /\ j_out.exc = ""

\* every page's text-acquisition call raised: the text is the error text of
\* each page, joined by the page separator
OcrFailedEveryPage ==
  /\ entry = "analyze"
  /\ raised_stage = ""
  /\ Len(text) % 2 = 1
  /\ \A i \in 1..Len(text) :
       text[i] = (IF i % 2 = 1 THEN "OCR error" ELSE "\n\n")
AcquisitionFailed ==
  (entry = "analyze" /\ raised_stage = "acquire") \/ OcrFailedEveryPage

\* C11: when acquisition fails (preprocessing raises, or the text-acquisition
\* call raises for every page), analyze returns the "could not read document"
\* summary with the single retake step, and makes no classification,
\* extraction, retrieval, planning or simplification call.
C11_AcquisitionFailureRecapture ==
  AcquisitionFailed =>
    /\ \A i \in 1..Len(calls) : calls[i].stage \notin LlmStages
    /\ pc = "done" =>
         /\ outcome = "returned"
         /\ result.summary_one_line = MsgUnreadable
         /\ result.steps_easy = <<StepRetake>>

\* C12: when the facts given to the simplifier have penalty_risk HIGH, the
\* dont_worry field of the returned result is empty.
C12_NoReassuranceOnHigh ==
  (pc = "done" /\ raised_stage = "" /\ Called("simplify")
     /\ CallOf("simplify").args.key_info["penalty_risk"] = "HIGH") =>
    result.dont_worry = ""

\* C13: penalty_risk of the facts the extractor returned, and of key_info of
\* a returned result that holds facts, is NONE, LOW, MEDIUM or HIGH.
C13_PenaltyRiskInEnum ==
  /\ Has(key_info, "penalty_risk") => key_info["penalty_risk"] \in RiskLevels
  /\ (pc = "done" /\ Has(result.key_info, "penalty_risk")) =>
       result.key_info["penalty_risk"] \in RiskLevels

\* C14: the type code the classifier returned is non-empty and is a code of
\* DOCUMENT_TYPES.
C14_TypeCodeInCatalog ==
  Has(classification, "doc_type") =>
    /\ classification["doc_type"] # <<>>
    /\ classification["doc_type"] \in DOCUMENT_TYPES

\* C15: after any sequence of appends the in-memory list and the persisted
\* file hold at most HistoryCap entries, and they are the HistoryCap most
\* recently appended ones.
C15_HistoryBounded ==
  /\ Len(analysis_history) <= HistoryCap
  /\ analysis_history = FirstN(api_appended, HistoryCap)
  /\ history_file.state = "valid" =>
       history_file.entries = FirstN(api_appended, HistoryCap)

\* C16: after every append and every clear, in any order of the requests, the
\* in-memory list holds every entry appended since the last clear and the
\* persisted file holds the capped view of the in-memory list.
C16_HistoryWritesAtomic ==
  /\ analysis_history = api_appended
  /\ LoadHistory(history_file) = LastN(analysis_history, HistoryCap)

\* C17: get(i) answers the full result appended under id i when no clear came
\* since, and not-found for an id not appended (or cleared); list(limit),
\* limit >= 0, answers the min(limit, size) most recently appended entries,
\* newest first, each with its id, timestamp, type name, summary and risk
\* level; a clear leaves nothing to list or get.
C17_HistoryOperations ==
  /\ api_response.op = "history_detail" =>
       IF \E i \in 1..Len(api_appended) : api_appended[i].id = api_response.arg
       THEN /\ api_response.status = 200
            /\ \E i \in 1..Len(api_appended) :
                 /\ api_appended[i].id = api_response.arg
                 /\ api_response.body = api_appended[i].result
       ELSE api_response.status = 404
  /\ (api_response.op = "history" /\ api_response.arg >= 0) =>
       LET n == MinOf(api_response.arg, Len(api_appended))
           rows == api_response.body["history"]
       IN /\ api_response.body["count"] = n
          /\ Len(rows) = n
          /\ \A i \in 1..n :
               /\ rows[i].id = api_appended[i].id
               /\ rows[i].timestamp = api_appended[i].timestamp
               /\ rows[i].doc_type_name = api_appended[i].result["doc_type_name"]
               /\ rows[i].summary_one_line = api_appended[i].result["summary_one_line"]
               /\ rows[i].risk_level = api_appended[i].result["risk_level"]
               /\ \A k \in 1..Len(api_appended) :
                    k > i => api_appended[k].timestamp < rows[i].timestamp
  /\ api_response.op = "clear" => analysis_history = <<>> /\ api_appended = <<>>
C17_Witness ==
  /\ api_response.op = "history"
  /\ api_response.arg = 1
  /\ Len(api_appended) = 3
  /\ api_response.body["count"] = 1
  /\ api_response.body["history"][1].id = 2

\* C18: when the knowledge file is missing, unreadable or not parseable,
\* GET /contacts answers the fixed fallback mapping of four organisations.
C18_ContactsFallback ==
  (api_response.op = "contacts"
     /\ api_response.arg \in {"missing", "unreadable", "malformed"}) =>
    /\ api_response.status = 200
    /\ api_response.body["contacts"] = FallbackContacts

\* C19: every remote call an analysis makes (text acquisition, the generative
\* call of each stage, the embedding of the search) runs under a configured
\* timeout.
C19_RemoteCallsBounded ==
  r_call.site # "" => HasTimeout(r_call.options)

\* C20: two requests in flight on the shared pipeline each own their result:
\* the result object and every container it holds were made by that request
\* alone and are held by no other request, and what the result holds is what
\* the request running alone builds from the same stage outcomes.
C20_RequestsIsolated ==
  \A r \in Requests :
    t_ref[r] # 0 =>
      /\ t_heap[t_ref[r]].by = r
      /\ \A f \in ContainerSet : t_heap[t_heap[t_ref[r]].val[f]].by = r
      /\ \A s \in Requests \ {r} :
           t_ref[s] # 0 =>
             /\ t_ref[s] # t_ref[r]
             /\ \A f, g \in ContainerSet :
                  t_heap[t_ref[r]].val[f] # t_heap[t_ref[s]].val[g]
      /\ Deref(t_heap, t_ref[r]) = RunAlone(t_locals[r])
\* both requests returned a full analysis; the second was entered after the
\* first, retrieved after the first had extracted, and simplified before the
\* first did; their results differ
C20_Witness ==
  /\ \A r \in Requests : t_pc[r] = "done" /\ t_locals[r][Len(t_locals[r])].exc = ""
  /\ t_ref[1] < t_ref[2]
  /\ t_heap[t_ref[1]].val["key_points"] > t_heap[t_ref[2]].val["key_points"]
  /\ t_heap[t_ref[2]].val["evidence_chunks"] > t_heap[t_ref[1]].val["key_info"]
  /\ Deref(t_heap, t_ref[1]).dont_worry # Deref(t_heap, t_ref[2]).dont_worry

\* C21: on every path through analyze and analyze_text (success, the
\* unreadable-document exit, a stage failure) the result handed to the caller
\* holds the time elapsed since the entry point was entered.
C21_ElapsedAlwaysRecorded ==
  Returned_ => /\ now > start_time
               /\ result.processing_time_ms = now - start_time
\* a run that failed in the planner, after three stages had returned
C21_Witness ==
  /\ Returned_
  /\ raised_stage = "plan"
  /\ result.summary_one_line = MsgFailed
  /\ result.processing_time_ms >= 4

\* C22: for a text that contains the amount "150,000won", the date
\* "2025-01-31" or the phone number "1577-1000", the candidate list of that
\* family is non-empty and has that very string as one of its entries.
Contains(t, piece) ==
  \E i \in 1..(Len(t) - Len(piece) + 1) : SubSeq(t, i, i + Len(piece) - 1) = piece
Listed(list, x) == \E i \in 1..Len(list) : list[i] = x
C22_LiteralAmongCandidates ==
  u_fn = "rules" /\ u_pc \in {"ruled", "done"} =>
    LET c == u_out.rule_candidates
    IN /\ Contains(u_in.text, AmountText) => Listed(c.amounts, AmountText)
       /\ Contains(u_in.text, DateText) => Listed(c.dates, DateText)
       /\ Contains(u_in.text, PhoneText) => Listed(c.phones, PhoneText)

\* C23: for every type code and facts record the decided action type is
\* that of the first matching row of the priority table.
HasAmount == TruthyStr(u_in.key_info.amount)
HasDueDate == TruthyStr(u_in.key_info.due_date)
RiskIsHigh == u_in.key_info.penalty_risk = "HIGH"
CodeHas(w) == \E i \in 1..Len(u_in.doc_type) : u_in.doc_type[i] = w
PriorityTable ==
  << <<HasAmount /\ HasDueDate /\ RiskIsHigh, "URGENT">>,
     <<HasAmount /\ HasDueDate, "PAY">>,
     <<u_in.key_info.action_required /\ RiskIsHigh, "URGENT">>,
     <<u_in.key_info.action_required, "CHECK">>,
     <<(CodeHas("gojiseo") \/ CodeHas("napbu")) /\ HasAmount, "PAY">>,
     <<CodeHas("tongjiseo") \/ CodeHas("chenap"), "URGENT">>,
     <<CodeHas("annaemun"), "NONE">>,
     <<TRUE, "CHECK">> >>
FirstRow == CHOOSE i \in 1..Len(PriorityTable) :
              /\ PriorityTable[i][1]
              /\ \A j \in 1..(i - 1) : ~PriorityTable[j][1]
C23_ActionTypeFollowsTable ==
  u_fn = "plan" /\ u_pc \in {"decided", "done"} =>
    u_out.action_type = PriorityTable[FirstRow][2]
\* an informational notice that asks for an action: row 4 wins over row 7
C23_Witness ==
  /\ u_fn = "plan" /\ u_pc = "decided"
  /\ CodeHas("annaemun") /\ ~HasAmount /\ u_in.key_info.action_required /\ ~RiskIsHigh
  /\ u_out.action_type = "CHECK"

\* C24: the action_type and urgency of the plan the planner returns are the
\* decided ones, whatever the generative step answered.
C24_PlanKeepsDecision ==
  u_fn = "plan" /\ u_pc = "done" /\ u_out.plan.exc = "" =>
    /\ u_out.plan.val["action_type"] = u_out.action_type
    /\ u_out.plan.val["urgency"] = u_out.urgency

\* C30 as stated: a decided action type NONE comes with a penalty_risk that
\* is neither MEDIUM nor HIGH and with urgency LOW.
C30_NoneNeverWithRisk ==
  u_fn = "plan" /\ u_pc \in {"decided", "done"} /\ u_out.action_type = "NONE" =>
    /\ u_in.key_info.penalty_risk \notin {"MEDIUM", "HIGH"}
    /\ u_out.urgency = "LOW"
\* C30 amended: a decided action type NONE comes with action_required false
\* and with amount and due date not both present; its urgency is the one the
\* penalty_risk alone gives (HIGH, MEDIUM, otherwise LOW).
C30_NoneOnlyWithoutDemand ==
  u_fn = "plan" /\ u_pc \in {"decided", "done"} /\ u_out.action_type = "NONE" =>
    /\ ~u_in.key_info.action_required
    /\ ~(HasAmount /\ HasDueDate)
    /\ u_out.urgency = (IF u_in.key_info.penalty_risk \in {"MEDIUM", "HIGH"}
                        THEN u_in.key_info.penalty_risk ELSE "LOW")
\* an informational notice with HIGH penalty_risk and nothing demanded
C30_Witness ==
  /\ u_fn = "plan" /\ u_pc = "decided"
  /\ u_out.action_type = "NONE"
  /\ u_in.key_info.penalty_risk = "HIGH"
  /\ u_out.urgency = "HIGH"

\* C25: whatever the refinement answered (a full object, an object lacking
\* fields, the parse-failure sentinel), the facts the extractor returns hold
\* all eight fields: a field the answer lacks has its default, a field the
\* answer has is unchanged.
C25_FactsComplete ==
  j_pc = "done" /\ j_stage = "extract" /\ j_out.exc = "" =>
    \A k \in FactKeys :
      /\ Has(j_out.val, k)
      /\ IF Has(j_ret.val, k)
         THEN j_out.val[k] = j_ret.val[k]
         ELSE j_out.val[k] = FactDefaults[k]
\* the answer was no JSON at all: the sentinel, completed with the defaults
C25_Witness ==
  /\ j_pc = "done" /\ j_stage = "extract" /\ j_out.exc = ""
  /\ j_ret.val = Sentinel(j_llm.resp)
  /\ Has(j_out.val, "raw_response")
  /\ j_out.val["penalty_risk"] = "NONE"

\* C29: for every generative output (the parse-failure sentinel included) the
\* explanation the simplifier returns holds all nine fields: a field omitted
\* or returned empty has its fallback, a field returned non-empty is unchanged.
C29_ExplanationComplete ==
  j_pc = "done" /\ j_stage = "simplify" /\ j_out.exc = "" =>
    \A k \in SimplifyKeys :
      /\ Has(j_out.val, k)
      /\ IF Has(j_ret.val, k) /\ ~Falsy(k, j_ret.val[k])
         THEN j_out.val[k] = j_ret.val[k]
         ELSE j_out.val[k] = SimplifyDefaults[k]
\* an answer with a summary and an empty list of steps
C29_Witness ==
  /\ j_pc = "done" /\ j_stage = "simplify" /\ j_out.exc = ""
  /\ Has(j_ret.val, "steps_easy") /\ j_ret.val["steps_easy"] = <<>>
  /\ j_out.val["steps_easy"] = SimplifyDefaults["steps_easy"]
  /\ j_out.val["summary_one_line"] = "pay now"

\* C26: within one analysis no remote call is issued twice; a call that
\* failed is not issued again: a failed stage call ends the analysis, a failed
\* search or summary call is followed by the planner's call.
C26_NoRetry ==
  /\ \A i, j \in 1..Len(r_trace) : i # j => r_trace[i].site # r_trace[j].site
  /\ \A i \in 1..Len(r_trace) :
       /\ r_call.site # r_trace[i].site
       /\ r_trace[i].how = "error" =>
            IF r_trace[i].site \in {"classify", "extract", "plan", "simplify"}
            THEN i = Len(r_trace) /\ r_pc = "done" /\ r_call.site = ""
            ELSE r_pc # r_trace[i].site
\* the search failed, and the analysis went on to plan and simplify
C26_Witness ==
  /\ r_pc = "done"
  /\ \E i \in 1..Len(r_trace) : r_trace[i].site = "embed" /\ r_trace[i].how = "error"
  /\ r_trace[Len(r_trace)].site = "simplify"
  /\ r_trace[Len(r_trace)].how = "ok"

\* C27: for every text and every family the candidate list holds no string
\* twice and lists the distinct matches in the order they are first met
\* (patterns in declared order, matches of one pattern left to right); the
\* refinement is shown the first 5 amounts, dates and phones and the first 3
\* accounts, in that order.
FirstAt(all, x) == CHOOSE i \in 1..Len(all) : all[i] = x /\ \A j \in 1..(i - 1) : all[j] # x
InFirstMetOrder(c, all) ==
  /\ \A i, j \in 1..Len(c) : i # j => c[i] # c[j]
  /\ {c[i] : i \in 1..Len(c)} = {all[i] : i \in 1..Len(all)}
  /\ \A i, j \in 1..Len(c) : i < j => FirstAt(all, c[i]) < FirstAt(all, c[j])
IsPrefixUpTo(shown, c, n) ==
  /\ Len(shown) = (IF Len(c) < n THEN Len(c) ELSE n)
  /\ \A i \in 1..Len(shown) : shown[i] = c[i]
C27_CandidatesDistinctInOrder ==
  (u_fn = "rules" /\ u_pc \in {"ruled", "done"} =>
     LET c == u_out.rule_candidates
     IN /\ InFirstMetOrder(c.amounts, AllMatches(AmountPatterns, u_in.text, 0))
        /\ InFirstMetOrder(c.dates, AllMatches(DatePatterns, u_in.text, 0))
        /\ InFirstMetOrder(c.phones, AllMatches(PhonePatterns, u_in.text, 0))
        /\ InFirstMetOrder(c.accounts, AllMatches(AccountPatterns, u_in.text, 1)))
  /\ (u_fn = "rules" /\ u_pc = "done" =>
        /\ IsPrefixUpTo(u_out.shown.amounts, u_out.rule_candidates.amounts, 5)
        /\ IsPrefixUpTo(u_out.shown.dates, u_out.rule_candidates.dates, 5)
        /\ IsPrefixUpTo(u_out.shown.phones, u_out.rule_candidates.phones, 5)
        /\ IsPrefixUpTo(u_out.shown.accounts, u_out.rule_candidates.accounts, 3))
\* a text whose phone patterns match eight times, six matches distinct: the
\* list has six entries and five are shown
C27_Witness ==
  /\ u_fn = "rules" /\ u_pc = "done"
  /\ Len(AllMatches(PhonePatterns, u_in.text, 0)) > Len(u_out.rule_candidates.phones)
  /\ Len(u_out.rule_candidates.phones) = 6
  /\ Len(u_out.shown.phones) = 5

\* C28: when a retrieved chunk's index metadata carries help-channel guidance
\* (a non-empty action guide), the note in the simplifier's rendering input is
\* the one assembled from the first such chunk in retrieval order.
GuideOf(hit) == JsonLoadsGuide(hit.metadata.action_guide)
C28_NoteFromFirstGuide ==
  u_fn = "note" /\ u_pc = "done" =>
    \A i \in 1..Len(u_in.hits) :
      (/\ GuideOf(u_in.hits[i]) # EmptyDict
       /\ \A j \in 1..(i - 1) : GuideOf(u_in.hits[j]) = EmptyDict)
      => u_out.action_guide_info = GuideNote(GuideOf(u_in.hits[i]))

====
